---- MODULE Spec2Model ----
(***************************************************************************)
(* The heat-news extraction pipeline: circuit breaker, source scheduler,    *)
(* checkpoint store, query executor, and the stages after collection.      *)
(* Each component has its own specification over the shared variables.     *)
(***************************************************************************)
EXTENDS Integers, Sequences, FiniteSets, TLC

(* ----------------------------- bounds ---------------------------------- *)
MaxTime == 5          \* the monotonic clock runs over 0..MaxTime
MaxThreshold == 2     \* failure_threshold is drawn from 1..MaxThreshold
MaxTimeout == 2       \* reset_timeout is drawn from 1..MaxTimeout
MaxOps == 4           \* record_failure/record_success calls in one behaviour
MaxChecks == 3        \* is_open reads in one behaviour
MaxLimit == 2         \* daily_limit is None or drawn from 1..MaxLimit
MaxExecs == 3         \* execute calls on the scheduler in one behaviour
MaxSchedTime == 2     \* the clock runs over 0..MaxSchedTime while the scheduler is driven
MaxRefs == 4          \* extract_articles is given up to MaxRefs refs
MaxConcurrent == 2    \* max_concurrent is drawn from 1..MaxConcurrent
MaxEntries == 2       \* a backend response carries up to MaxEntries entries
MaxSearches == 2      \* search calls on one source adapter in one behaviour
MaxWinReq == 2        \* WindowLimiter max_requests is drawn from 1..MaxWinReq
MaxWindowSecs == 1    \* WindowLimiter window_seconds is drawn from 1..MaxWindowSecs
MaxInterval == 2      \* PerSecondLimiter interval is drawn from 1..MaxInterval tenths of a second
MaxJitter == 1        \* PerSecondLimiter jitter is drawn from 0..MaxJitter tenths of a second
MaxAcquires == 3      \* PerSecondLimiter.acquire calls in one behaviour
MaxFilterRefs == 2    \* filter_refs is given up to MaxFilterRefs refs
MaxCheckers == 3      \* a consensus checker has 2..MaxCheckers sub-checkers
MaxPsTime == 8        \* the clock runs over 0..MaxPsTime while the per-second limiter is driven
MaxLabels == 3        \* the host of a URL has 1..MaxLabels labels
MaxSlashes == 2       \* the path of a URL ends in up to MaxSlashes slashes
MaxParams == 2        \* the query of a URL has up to MaxParams parameters
MaxArticles == 3      \* deduplicate_and_filter is given up to MaxArticles articles
MaxLLM == 2           \* LLM_PROVIDER names up to MaxLLM providers with a key
MaxDistricts == 3     \* a region has up to MaxDistricts districts

(* ------------------------- program constants --------------------------- *)
MaxAttempts == 5      \* with_rate_limit_retry(max_attempts=5)
NoLimit == -1         \* daily_limit = None

VARIABLES
    now,                    \* time.monotonic()
    cb_threshold,           \* CircuitBreaker._failure_threshold
    cb_timeout,             \* CircuitBreaker._reset_timeout
    cb_state,               \* CircuitBreaker._state
    cb_failure_count,       \* CircuitBreaker._failure_count
    cb_last_failure_time,   \* CircuitBreaker._last_failure_time
    cb_ret,                 \* value returned by the last is_open read ("none" before the first)
    cb_log,                 \* history: the record_* calls so far ("F" / "S")
    cb_checks,              \* history: number of is_open reads so far
    cb_tripT,               \* history: time of the last trip, -1 when none is pending
    cb_armed,               \* history: tripped, and since then no record_success and no is_open read that returned false
    cb_prev,                \* history: the state the latest record_* call found
    cb_lastF,               \* history: time of the latest record_failure call
    sch_limit,              \* SourceScheduler._daily_limit (NoLimit for None)
    sch_count,              \* SourceScheduler._daily_count
    sch_any_lang,           \* SourceScheduler._supported_languages is None
    sch_supported,          \* SourceScheduler._supported_languages when it is a set
    sch_permits,            \* free permits of SourceScheduler._semaphore
    ex_pc,                  \* per call slot: where that execute call stands
    ex_lang,                \* per call slot: query.language
    ex_attempt,             \* per call slot: tenacity attempt number of the running source call
    ex_res,                 \* per call slot: what execute returned or raised
    ex_outcome,             \* history, per call slot: how the wrapped source call ended
    ex_called,              \* history, per call slot: source.search invocations of this execute
    ex_signals,             \* history, per call slot: RateLimitErrors source.search raised in this execute
    ex_okBefore,            \* history, per call slot: executes that had returned from the source with articles when this one began
    src_calls,              \* history: source.search invocations of this scheduler
    ok_returns,             \* history: executes that returned successfully from the source
    n_exec,                 \* history: execute calls begun
    ck_completed,           \* CheckpointStore._completed of the running process
    ck_file,                \* the checkpoint file at CheckpointStore._path
    ck_pc,                  \* where the process stands: idle, saving, down, load_failed
    ck_buf,                 \* the JSON text the running save() is writing
    fs_status,              \* a fresh CheckpointStore on the same path: none, absent, loaded, error
    fs_completed,           \* _completed of that fresh store after load()
    ck_markedQ,             \* history: the queries ever passed to mark_completed, by any run
    ck_hereQ,               \* history: the queries passed to mark_completed of the running store
    ck_pendingQ,            \* history: the queries marked when the running save() began
    ck_saved,               \* history: the last save() that returned, and the queries marked before it
    rc_pc,                  \* run_collection: phase1, phase2, returned, raised; killed, load_failed
    x_restarted,            \* the process was killed and the pipeline started again
    x_deadline,             \* time.monotonic() >= QueryExecutor._deadline
    x_abort,                \* the TaskGroup is aborting: its unfinished tasks are being cancelled
    x_errors,               \* TaskGroup._errors: exceptions its tasks ended with
    x_results,              \* `results` of _execute_queries_parallel
    x_articles,             \* `all_articles` of run_collection
    t_pc,                   \* per source task: loop, executing, save_open, save_close, done, failed, cancelled, none
    t_queries,              \* per source task: the query list it was given
    t_idx,                  \* per source task: position in that list
    t_local,                \* per source task: `results` of _execute_query_list
    t_buf,                  \* per source task: the JSON text its save() is writing
    xs_limit,               \* per source: its scheduler's daily_limit
    xs_count,               \* per source: its scheduler's _daily_count
    x_issued,               \* history: queries scheduler.execute was called with in this run
    x_loaded,               \* history: the fingerprints checkpoint.load() found at the start of this run
    x_skipped,              \* history: queries this run skipped as completed
    x_raisedIn,             \* history: exceptions raised inside per-source tasks in this run
    xt_refs,                \* extract_articles: `refs`
    xt_maxc,                \* extract_articles: `max_concurrent`
    xt_pc,                  \* extract_articles: check, gather, fill, returned
    xt_i,                   \* extract_articles: `i`, start of the current chunk
    xt_slots,               \* extract_articles: per task of the chunk: waiting, running, or its Article
    xt_articles,            \* extract_articles: `articles`
    xt_deadline,            \* time.monotonic() >= deadline
    sa_adapter,             \* the source adapter: google, newsdata, gnews
    sa_key,                 \* the adapter has an API key
    sa_limit,               \* the adapter's _daily_limit
    sa_count,               \* the adapter's _daily_count
    sa_pc,                  \* search: idle, waiting (for the backend), done
    sa_resp,                \* history: what the backend answered to the last request
    sa_out,                 \* what the last search call came to: a list or a raised exception
    sa_calls,               \* history: search calls made
    lm_now,                 \* time.monotonic() as the limiters read it, in tenths of a second
    wl_max,                 \* WindowLimiter._max
    wl_window,              \* WindowLimiter._window, in tenths of a second
    wl_timestamps,          \* WindowLimiter._timestamps
    wl_pc,                  \* per caller of WindowLimiter.acquire: idle, sleeping
    wl_wake,                \* per caller: the time its asyncio.sleep is over
    wl_calls,               \* history: acquire calls issued
    wl_returns,             \* history: the time of each return of acquire, in order
    wl_slept,               \* history: whether the call behind each return slept
    ps_interval,            \* PerSecondLimiter._interval, in tenths of a second
    ps_jitter,              \* PerSecondLimiter._jitter, in tenths of a second
    ps_last,                \* PerSecondLimiter._last
    ps_lock,                \* PerSecondLimiter._lock: the caller holding it, 0 for none
    ps_pc,                  \* per caller of PerSecondLimiter.acquire: idle, locking, sleeping
    ps_wake,                \* per caller: the time its asyncio.sleep is over
    ps_calls,               \* history: acquire calls issued
    ps_returns,             \* history: the time of each return of acquire, in order
    fr_len,                 \* filter_refs: len(refs); the refs are 1..fr_len
    fr_n,                   \* the checkers asked per ref: 1 for a single provider
    fr_i,                   \* the ref being checked
    fr_votes,               \* what check_relevance returned for it, checker by checker
    fr_errs,                \* history: the LLM calls that failed for the ref being checked
    fr_notyes,              \* history: the answers other than Yes for the ref being checked
    fr_log,                 \* history: per checked ref, the failed calls and the answers other than Yes
    fr_out,                 \* `relevant`, the refs kept so far
    fr_pc,                  \* filter_refs: checking, returned
    nu_url,                 \* the URL given to normalize_url
    nu_once,                \* normalize_url(nu_url)
    nu_twice,               \* normalize_url(normalize_url(nu_url))
    nu_pc,                  \* given, once, twice
    dd_in,                  \* the articles given to deduplicate_and_filter
    dd_patterns,            \* whether exclusion_patterns.json has patterns that match the titles drawn
    dd_url,                 \* history: what deduplicate_by_url returned in that call
    dd_title,               \* history: what deduplicate_by_title returned in that call
    dd_once,                \* deduplicate_and_filter(dd_in)
    dd_twice,               \* deduplicate_and_filter(deduplicate_and_filter(dd_in))
    dd_pc,                  \* given, once, twice
    mn_pc,                  \* main(): the stage about to run, or except, finally, exited
    mn_raised,              \* whether an exception is propagating out of the try block
    mn_src_open,            \* the source adapters of sources_to_close not closed yet
    mn_llm_open,            \* the LLM checkers created whose httpx client is not closed yet
    mn_file,                \* output/.checkpoint.json: absent or present
    mn_sources,             \* history: the source adapters main() created
    mn_llm,                 \* history: the LLM checkers create_relevance_checker() created
    mn_written,             \* history: the file as the last save of the run left it
    mn_removed,             \* history: whether unlink() ran
    mn_failedAt,            \* history: the stage that raised, or none
    gq_names,               \* generate_district_queries: the district names of the region
    gq_max,                 \* the source's character limit
    gq_out,                 \* the queries returned: query_string and districts
    gq_pc                   \* given, returned

cbVars == <<cb_threshold, cb_timeout, cb_state, cb_failure_count, cb_last_failure_time>>
cbHist == <<cb_ret, cb_log, cb_checks, cb_tripT, cb_armed, cb_prev, cb_lastF>>

schVars == <<sch_limit, sch_count, sch_any_lang, sch_supported, sch_permits>>
exVars == <<ex_pc, ex_lang, ex_attempt, ex_res>>
exHist == <<ex_outcome, ex_called, ex_signals, ex_okBefore, src_calls, ok_returns, n_exec>>

ckVars == <<ck_completed, ck_file, ck_pc, ck_buf, fs_status, fs_completed>>
ckHist == <<ck_markedQ, ck_hereQ, ck_pendingQ, ck_saved>>

rcVars == <<rc_pc, x_restarted, x_deadline, x_abort, x_errors, x_results, x_articles>>
taskVars == <<t_pc, t_queries, t_idx, t_local, t_buf>>
xsVars == <<xs_limit, xs_count>>
xHist == <<x_issued, x_loaded, x_skipped, x_raisedIn>>
xVars == <<rcVars, taskVars, xsVars, xHist>>

xtVars == <<xt_refs, xt_maxc, xt_pc, xt_i, xt_slots, xt_articles, xt_deadline>>

\* the collection core, and the stages after it
coreVars == <<now, cbVars, cbHist, schVars, exVars, exHist, ckVars, ckHist, xVars>>
saVars == <<sa_adapter, sa_key, sa_limit, sa_count, sa_pc, sa_resp, sa_out, sa_calls>>
wlVars == <<wl_max, wl_window, wl_timestamps, wl_pc, wl_wake, wl_calls, wl_returns, wl_slept>>
psVars == <<ps_interval, ps_jitter, ps_last, ps_lock, ps_pc, ps_wake, ps_calls, ps_returns>>
lmVars == <<lm_now, wlVars, psVars>>
frVars == <<fr_len, fr_n, fr_i, fr_votes, fr_errs, fr_notyes, fr_log, fr_out, fr_pc>>
nuVars == <<nu_url, nu_once, nu_twice, nu_pc>>
ddVars == <<dd_in, dd_patterns, dd_url, dd_title, dd_once, dd_twice, dd_pc>>
mnVars == <<mn_pc, mn_raised, mn_src_open, mn_llm_open, mn_file,
           mn_sources, mn_llm, mn_written, mn_removed, mn_failedAt>>
gqVars == <<gq_names, gq_max, gq_out, gq_pc>>
dedupVars == <<nuVars, ddVars, mnVars, gqVars>>
pipeVars == <<xtVars, saVars, lmVars, frVars, dedupVars>>

vars == <<coreVars, pipeVars>>

\* what the actions of one component leave alone
outsideCB == <<schVars, exVars, exHist, ckVars, ckHist, xVars, pipeVars>>
outsideSched == <<ckVars, ckHist, xVars, pipeVars>>
outsideCk == <<now, cbVars, cbHist, schVars, exVars, exHist, xVars, pipeVars>>
outsideX == <<now, cbVars, cbHist, schVars, exVars, exHist,
              ck_pc, ck_buf, fs_status, fs_completed, ckHist, pipeVars>>
outsideXt == <<coreVars, saVars, lmVars, frVars, dedupVars>>
outsideSa == <<coreVars, xtVars, lmVars, frVars, dedupVars>>
outsideWl == <<coreVars, xtVars, saVars, psVars, frVars, dedupVars>>
outsidePs == <<coreVars, xtVars, saVars, wlVars, frVars, dedupVars>>
outsideFr == <<coreVars, xtVars, saVars, lmVars, dedupVars>>
outsideNu == <<coreVars, xtVars, saVars, lmVars, frVars, ddVars, mnVars, gqVars>>
outsideDd == <<coreVars, xtVars, saVars, lmVars, frVars, nuVars, mnVars, gqVars>>
outsideMn == <<coreVars, xtVars, saVars, lmVars, frVars, nuVars, ddVars, gqVars>>
outsideGq == <<coreVars, xtVars, saVars, lmVars, frVars, nuVars, ddVars, mnVars>>

\* extract_articles is not running
XtQuiet ==
    /\ xt_refs = <<>> /\ xt_maxc = 1 /\ xt_pc = "returned" /\ xt_i = 0
    /\ xt_slots = <<>> /\ xt_articles = <<>> /\ xt_deadline = FALSE

\* a source adapter nobody calls
SaQuiet ==
    /\ sa_adapter = "google" /\ sa_key = TRUE /\ sa_limit = 0 /\ sa_count = 0
    /\ sa_pc = "idle" /\ sa_calls = 0
    /\ sa_resp = [kind |-> "none", entries |-> <<>>]
    /\ sa_out = [kind |-> "none", items |-> <<>>, exc |-> "none"]

WlCallers == {1, 2}

\* a window limiter nobody calls
WlQuiet ==
    /\ wl_max = 1 /\ wl_window = 1 /\ wl_timestamps = <<>>
    /\ wl_pc = [p \in WlCallers |-> "idle"] /\ wl_wake = [p \in WlCallers |-> 0]
    /\ wl_calls = 0 /\ wl_returns = <<>> /\ wl_slept = <<>>

PsCallers == {1, 2}

\* a per-second limiter nobody calls
PsQuiet ==
    /\ ps_interval = 1 /\ ps_jitter = 0 /\ ps_last = 0 /\ ps_lock = 0
    /\ ps_pc = [p \in PsCallers |-> "idle"] /\ ps_wake = [p \in PsCallers |-> 0]
    /\ ps_calls = 0 /\ ps_returns = <<>>

LmQuiet == lm_now = 0 /\ WlQuiet /\ PsQuiet

\* no relevance filter is running
FrQuiet ==
    /\ fr_len = 0 /\ fr_n = 1 /\ fr_i = 1 /\ fr_votes = <<>> /\ fr_errs = 0
    /\ fr_notyes = 0 /\ fr_log = <<>> /\ fr_out = <<>> /\ fr_pc = "returned"

\* no URL is being normalised
NuQuiet ==
    /\ nu_pc = "twice"
    /\ nu_url = [scheme |-> "https", netloc |-> <<"ex">>, segs |-> <<>>, slashes |-> 1,
                 query |-> <<>>, fragment |-> FALSE]
    /\ nu_once = nu_url /\ nu_twice = nu_url

\* no list of articles is being deduplicated
DdQuiet ==
    /\ dd_pc = "twice" /\ dd_patterns = FALSE
    /\ dd_in = <<>> /\ dd_url = <<>> /\ dd_title = <<>>
    /\ dd_once = <<>> /\ dd_twice = <<>>

\* main() has exited, nothing created and nothing left on disk
MnQuiet ==
    /\ mn_pc = "exited" /\ mn_raised = FALSE /\ mn_src_open = {} /\ mn_llm_open = {}
    /\ mn_file = "absent" /\ mn_sources = {} /\ mn_llm = {} /\ mn_written = "absent"
    /\ mn_removed = FALSE /\ mn_failedAt = "none"

\* no district queries are being generated
GqQuiet == gq_names = <<>> /\ gq_max = 0 /\ gq_out = <<>> /\ gq_pc = "returned"

DedupQuiet == NuQuiet /\ DdQuiet /\ MnQuiet /\ GqQuiet

\* the stages after collection are not running
PipeQuiet == XtQuiet /\ SaQuiet /\ LmQuiet /\ FrQuiet /\ DedupQuiet

(* --------------------------- circuit breaker --------------------------- *)

\* CircuitBreaker.__init__
CBInit ==
    /\ cb_threshold \in 1..MaxThreshold
    /\ cb_timeout \in 1..MaxTimeout
    /\ cb_failure_count = 0
    /\ cb_last_failure_time = 0
    /\ cb_state = "closed"

CBHistInit ==
    /\ cb_ret = "none"
    /\ cb_log = <<>>
    /\ cb_checks = 0
    /\ cb_tripT = -1
    /\ cb_armed = FALSE
    /\ cb_prev = "none"
    /\ cb_lastF = -1

\* a Python bool as the text the model stores
BoolStr(b) == IF b THEN "True" ELSE "False"

\* is_open with a strict comparison against reset_timeout
ResetElapsed_strict(t, last, timeout) == t - last > timeout

\* the open -> half_open test of is_open
ResetElapsed(t, last, timeout) == t - last >= timeout

\* CircuitBreaker.is_open: the value returned
IsOpenValue == cb_state = "open" /\ ~ResetElapsed(now, cb_last_failure_time, cb_timeout)

\* CircuitBreaker.is_open: the state it leaves
IsOpenState ==
    IF cb_state = "open" /\ ResetElapsed(now, cb_last_failure_time, cb_timeout)
    THEN "half_open" ELSE cb_state

\* state after record_success
SuccessState(s) == "closed"

\* record_success that forgets to clear the counter
SuccessCount_kept(c) == c

\* failure counter after record_success
SuccessCount(c) == 0

\* record_failure that trips only when the counter equals the threshold
ThresholdReached_eq(c, th) == c = th

\* the threshold test of record_failure
ThresholdReached(c, th) == c >= th

\* CircuitBreaker.record_success on the breaker's fields
record_success ==
    /\ cb_failure_count' = SuccessCount(cb_failure_count)
    /\ cb_state' = SuccessState(cb_state)
    /\ UNCHANGED <<cb_threshold, cb_timeout, cb_last_failure_time>>

\* CircuitBreaker.record_failure on the breaker's fields
record_failure ==
    /\ cb_failure_count' = cb_failure_count + 1
    /\ cb_last_failure_time' = now
    /\ cb_state' = IF ThresholdReached(cb_failure_count + 1, cb_threshold)
                   THEN "open" ELSE cb_state
    /\ UNCHANGED <<cb_threshold, cb_timeout>>

\* CircuitBreaker.is_open on the breaker's fields
is_open ==
    /\ cb_state' = IsOpenState
    /\ UNCHANGED <<cb_threshold, cb_timeout, cb_failure_count, cb_last_failure_time>>

\* a breaker nobody uses
CBQuiet ==
    /\ cb_threshold = 1
    /\ cb_timeout = 1
    /\ cb_failure_count = 0
    /\ cb_last_failure_time = 0
    /\ cb_state = "closed"
    /\ CBHistInit

\* number of "F" entries at the end of a log
RECURSIVE TrailingF(_)
TrailingF(log) ==
    IF log = <<>> \/ log[Len(log)] # "F" THEN 0
    ELSE 1 + TrailingF(SubSeq(log, 1, Len(log) - 1))

\* the monotonic clock advances
Tick ==
    /\ now < MaxTime
    /\ now' = now + 1
    /\ UNCHANGED <<cbVars, cbHist, outsideCB>>

\* a caller records a failure
CBRecordFailure ==
    /\ Len(cb_log) < MaxOps
    /\ record_failure
    /\ cb_log' = Append(cb_log, "F")
    /\ cb_lastF' = now
    /\ cb_tripT' = IF cb_state # "open" /\ cb_state' = "open" THEN now ELSE cb_tripT
    /\ cb_armed' = IF cb_state # "open" /\ cb_state' = "open" THEN TRUE ELSE cb_armed
    /\ cb_prev' = cb_state
    /\ UNCHANGED <<now, cb_ret, cb_checks, outsideCB>>

\* a caller records a success
CBRecordSuccess ==
    /\ Len(cb_log) < MaxOps
    /\ record_success
    /\ cb_log' = Append(cb_log, "S")
    /\ cb_armed' = FALSE
    /\ cb_prev' = cb_state
    /\ UNCHANGED <<now, cb_ret, cb_checks, cb_tripT, cb_lastF, outsideCB>>

\* a caller reads is_open
CBIsOpen ==
    /\ cb_checks < MaxChecks
    /\ is_open
    /\ cb_ret' = BoolStr(IsOpenValue)
    /\ cb_checks' = cb_checks + 1
    /\ cb_tripT' = IF cb_tripT >= 0 /\ now >= cb_tripT + cb_timeout THEN -1 ELSE cb_tripT
    /\ cb_armed' = (cb_armed /\ IsOpenValue)
    /\ UNCHANGED <<now, cb_log, cb_prev, cb_lastF, outsideCB>>

(* --------------------------- source scheduler -------------------------- *)
\* the execute calls that can be in flight: the executor's per-source loop
\* awaits each execute before it starts the next, so one slot per scheduler
Callers == DOMAIN ex_pc
SeqCallers == {1}
Langs == {"en", "sa"}
ArticleLists == {<<>>, <<"a1">>}

QueryResult(ok, err, arts) ==
    [kind |-> "result", success |-> ok, error |-> err, articles |-> arts]
Raised(exc) ==
    [kind |-> "raised", success |-> FALSE, error |-> exc, articles |-> <<>>]
NoResult == [kind |-> "none", success |-> FALSE, error |-> "none", articles |-> <<>>]

\* SourceScheduler.__init__: one permit (the default concurrency), counter at 0
SchedInit(slots) ==
    /\ sch_limit \in {NoLimit} \cup (1..MaxLimit)
    /\ sch_count = 0
    /\ \/ sch_any_lang = TRUE /\ sch_supported = {}
       \/ sch_any_lang = FALSE /\ sch_supported = {"en"}
    /\ sch_permits = 1
    /\ ex_pc = [p \in slots |-> "idle"]
    /\ ex_lang = [p \in slots |-> "en"]
    /\ ex_attempt = [p \in slots |-> 0]
    /\ ex_res = [p \in slots |-> NoResult]

SchedHistInit(slots) ==
    /\ ex_outcome = [p \in slots |-> "none"]
    /\ ex_called = [p \in slots |-> 0]
    /\ ex_signals = [p \in slots |-> 0]
    /\ ex_okBefore = [p \in slots |-> 0]
    /\ src_calls = 0
    /\ ok_returns = 0
    /\ n_exec = 0

\* a scheduler nobody calls
SchedQuiet ==
    /\ sch_limit = NoLimit
    /\ sch_count = 0
    /\ sch_any_lang = TRUE
    /\ sch_supported = {}
    /\ sch_permits = 1
    /\ ex_pc = [p \in SeqCallers |-> "idle"]
    /\ ex_lang = [p \in SeqCallers |-> "en"]
    /\ ex_attempt = [p \in SeqCallers |-> 0]
    /\ ex_res = [p \in SeqCallers |-> NoResult]
    /\ SchedHistInit(SeqCallers)

\* a budget test that lets one request too many through
BudgetExhausted_strict(count, limit) == limit # NoLimit /\ count > limit

\* SourceScheduler._is_budget_exhausted
BudgetExhausted(count, limit) == limit # NoLimit /\ count >= limit

\* SourceScheduler.supports_language
supports_language(lang) == sch_any_lang \/ lang \in sch_supported

\* SourceScheduler.remaining_budget (NoLimit for None)
remaining_budget ==
    IF sch_limit = NoLimit THEN NoLimit
    ELSE IF sch_limit - sch_count > 0 THEN sch_limit - sch_count ELSE 0

\* the language check moved in front of the budget check
SkipReason_language_first(lang) ==
    IF IsOpenValue THEN "circuit_breaker_open"
    ELSE IF ~supports_language(lang) THEN "unsupported_language"
    ELSE IF BudgetExhausted(sch_count, sch_limit) THEN "budget_exhausted"
    ELSE "none"

\* the skip result of execute's checks 0-2, "none" when the query goes through
SkipReason(lang) ==
    IF IsOpenValue THEN "circuit_breaker_open"
    ELSE IF BudgetExhausted(sch_count, sch_limit) THEN "budget_exhausted"
    ELSE IF ~supports_language(lang) THEN "unsupported_language"
    ELSE "none"

\* execute up to its first suspension: the three checks, then the semaphore
ExecStart(p, lang) ==
    /\ ex_pc[p] \in {"idle", "done"}
    /\ n_exec < MaxExecs
    /\ n_exec' = n_exec + 1
    /\ is_open
    /\ ex_lang' = [ex_lang EXCEPT ![p] = lang]
    /\ ex_outcome' = [ex_outcome EXCEPT ![p] = "none"]
    /\ ex_called' = [ex_called EXCEPT ![p] = 0]
    /\ ex_signals' = [ex_signals EXCEPT ![p] = 0]
    /\ ex_okBefore' = [ex_okBefore EXCEPT ![p] = ok_returns]
    /\ ex_attempt' = [ex_attempt EXCEPT ![p] = 0]
    /\ IF SkipReason(lang) # "none"
       THEN /\ ex_res' = [ex_res EXCEPT ![p] = QueryResult(TRUE, SkipReason(lang), <<>>)]
            /\ ex_pc' = [ex_pc EXCEPT ![p] = "done"]
            /\ UNCHANGED sch_permits
       ELSE /\ ex_res' = [ex_res EXCEPT ![p] = NoResult]
            /\ IF sch_permits > 0
               THEN /\ sch_permits' = sch_permits - 1
                    /\ ex_pc' = [ex_pc EXCEPT ![p] = "limiter"]
               ELSE /\ UNCHANGED sch_permits
                    /\ ex_pc' = [ex_pc EXCEPT ![p] = "sem_wait"]
    /\ UNCHANGED <<now, cbHist, sch_limit, sch_count, sch_any_lang, sch_supported,
                   src_calls, ok_returns,
                   outsideSched>>

\* a waiting execute gets the semaphore
SemAcquire(p) ==
    /\ ex_pc[p] = "sem_wait"
    /\ sch_permits > 0
    /\ sch_permits' = sch_permits - 1
    /\ ex_pc' = [ex_pc EXCEPT ![p] = "limiter"]
    /\ UNCHANGED <<now, cbVars, cbHist, sch_limit, sch_count, sch_any_lang, sch_supported,
                   ex_lang, ex_attempt, ex_res, exHist,
                   outsideSched>>

\* the limiters let the call through and _call_source invokes source.search
CallSource(p) ==
    /\ ex_pc[p] = "limiter"
    /\ ex_pc' = [ex_pc EXCEPT ![p] = "call"]
    /\ ex_attempt' = [ex_attempt EXCEPT ![p] = 1]
    /\ src_calls' = src_calls + 1
    /\ ex_called' = [ex_called EXCEPT ![p] = 1]
    /\ UNCHANGED <<now, cbVars, cbHist, schVars, ex_lang, ex_res,
                   ex_outcome, ex_signals, ex_okBefore, ok_returns, n_exec,
                   outsideSched>>

\* source.search returns a list: steps 7-9 of execute
SourceReturns(p, arts) ==
    /\ ex_pc[p] = "call"
    /\ sch_permits' = sch_permits + 1
    /\ sch_count' = sch_count + 1
    /\ record_success
    /\ ex_res' = [ex_res EXCEPT ![p] = QueryResult(TRUE, "none", arts)]
    /\ ex_pc' = [ex_pc EXCEPT ![p] = "done"]
    /\ ex_outcome' = [ex_outcome EXCEPT ![p] = "articles"]
    /\ ok_returns' = ok_returns + 1
    /\ UNCHANGED <<now, cbHist, sch_limit, sch_any_lang, sch_supported, ex_lang,
                   ex_attempt, ex_called, ex_signals, ex_okBefore, src_calls, n_exec,
                   outsideSched>>

\* the except branch of execute: steps 10-11
FailResult(p, err, outcome) ==
    /\ sch_permits' = sch_permits + 1
    /\ record_failure
    /\ ex_res' = [ex_res EXCEPT ![p] = QueryResult(FALSE, err, <<>>)]
    /\ ex_pc' = [ex_pc EXCEPT ![p] = "done"]
    /\ ex_outcome' = [ex_outcome EXCEPT ![p] = outcome]

\* a retry wrapper that stops one attempt late
ShouldRetry_late(attempt) == attempt <= MaxAttempts

\* tenacity's stop_after_attempt(max_attempts), asked after a failed attempt
ShouldRetry(attempt) == attempt < MaxAttempts

\* source.search raises RateLimitError: tenacity sleeps and calls again, or
\* re-raises once max_attempts calls have been made
SourceRateLimited(p) ==
    /\ ex_pc[p] = "call"
    /\ ex_signals' = [ex_signals EXCEPT ![p] = ex_signals[p] + 1]
    /\ IF ShouldRetry(ex_attempt[p])
       THEN /\ ex_attempt' = [ex_attempt EXCEPT ![p] = ex_attempt[p] + 1]
            /\ src_calls' = src_calls + 1
            /\ ex_called' = [ex_called EXCEPT ![p] = ex_called[p] + 1]
            /\ UNCHANGED <<cbVars, sch_permits, ex_pc, ex_res, ex_outcome>>
       ELSE /\ FailResult(p, "RateLimitError", "rate_limit")
            /\ UNCHANGED <<ex_attempt, src_calls, ex_called>>
    /\ UNCHANGED <<now, cbHist, sch_limit, sch_count, sch_any_lang, sch_supported,
                   ex_lang, ex_okBefore, ok_returns, n_exec,
                   outsideSched>>

\* source.search raises another Exception: not retried
SourceRaises(p) ==
    /\ ex_pc[p] = "call"
    /\ FailResult(p, "Exception", "error")
    /\ UNCHANGED <<now, cbHist, sch_limit, sch_count, sch_any_lang, sch_supported,
                   ex_lang, ex_attempt, ex_called, ex_signals, ex_okBefore, src_calls, ok_returns, n_exec,
                   outsideSched>>

\* asyncio.CancelledError is raised at the await execute is suspended in; it is
\* a BaseException, so "except Exception" lets it through and "async with"
\* gives the permit back
Cancelled(p) ==
    /\ ex_pc[p] \in {"sem_wait", "limiter", "call"}
    /\ sch_permits' = IF ex_pc[p] = "sem_wait" THEN sch_permits ELSE sch_permits + 1
    /\ ex_res' = [ex_res EXCEPT ![p] = Raised("CancelledError")]
    /\ ex_pc' = [ex_pc EXCEPT ![p] = "done"]
    /\ ex_outcome' = [ex_outcome EXCEPT ![p] = "cancelled"]
    /\ UNCHANGED <<now, cbVars, cbHist, sch_limit, sch_count, sch_any_lang, sch_supported,
                   ex_lang, ex_attempt, ex_called, ex_signals, ex_okBefore, src_calls, ok_returns, n_exec,
                   outsideSched>>

\* no execute is in flight on the scheduler
NoneInFlight == \A p \in Callers : ex_pc[p] \in {"idle", "done"}

\* the executor's per-source loop awaits each execute before the next
SeqExecStart(p, lang) == NoneInFlight /\ ExecStart(p, lang)

(* --------------------------- checkpoint store -------------------------- *)

\* Query objects the store is asked about: two that differ only in category
\* (a field outside the fingerprint), one with another query string, one of
\* another source
CkQueries ==
    { [source_hint |-> 0, state_slug |-> 0, language |-> 0, level |-> 0,
       query_string |-> 0, category |-> 0],
      [source_hint |-> 0, state_slug |-> 0, language |-> 0, level |-> 0,
       query_string |-> 0, category |-> 1],
      [source_hint |-> 0, state_slug |-> 0, language |-> 0, level |-> 0,
       query_string |-> 1, category |-> 0],
      [source_hint |-> 1, state_slug |-> 0, language |-> 0, level |-> 0,
       query_string |-> 0, category |-> 0] }

\* CheckpointStore.query_key: the SHA-256 prefix of
\* source_hint|state_slug|language|level|query_string, taken as injective on
\* that string; keys are numbers so that sorted() has an order to sort by
query_key_no_hint(q) ==
    8 * q.state_slug + 4 * q.language + 2 * q.level + q.query_string

query_key(q) ==
    16 * q.source_hint + 8 * q.state_slug + 4 * q.language + 2 * q.level + q.query_string

KeysOf(qs) == {query_key(q) : q \in qs}

\* a skip that only looks at state-level queries
is_completed_state_only(completed, q) ==
    q.level = 0 /\ query_key(q) \in completed

\* CheckpointStore.is_completed on a store whose set is `completed`
is_completed(completed, q) == query_key(q) \in completed

Min(S) == CHOOSE x \in S : \A y \in S : x <= y

\* sorted(self._completed)
RECURSIVE Sorted(_)
Sorted(S) == IF S = {} THEN <<>> ELSE <<Min(S)>> \o Sorted(S \ {Min(S)})

\* the JSON text: the tokens that open and close {"completed_queries": [ ... ]}
OpenTok == 0 - 1
CloseTok == 0 - 2

\* a dump that loses the last entry of the list
Dumps_short(S) ==
    <<OpenTok>> \o (IF S = {} THEN <<>> ELSE SubSeq(Sorted(S), 1, Cardinality(S) - 1))
                \o <<CloseTok>>

\* json.dumps({"completed_queries": sorted(self._completed)}, indent=2)
Dumps(S) == <<OpenTok>> \o Sorted(S) \o <<CloseTok>>

\* json.loads accepts the text
WellFormed(text) ==
    /\ Len(text) >= 2
    /\ text[1] = OpenTok
    /\ text[Len(text)] = CloseTok
    /\ \A i \in 2..(Len(text) - 1) : text[i] >= 0

\* set(json.loads(raw).get("completed_queries", []))
Loads(text) == {text[i] : i \in 2..(Len(text) - 1)}

\* the checkpoint file: absent, or holding a text
NoFile == [exists |-> FALSE, text |-> <<>>]
FileWith(text) == [exists |-> TRUE, text |-> text]

NeverSaved == [some |-> FALSE, queries |-> {}, text |-> <<>>]

\* CheckpointStore.__init__ on a path that holds no file
CkInit ==
    /\ ck_completed = {}
    /\ ck_file = NoFile
    /\ ck_pc = "idle"
    /\ ck_buf = <<>>
    /\ fs_status = "none"
    /\ fs_completed = {}

CkHistInit ==
    /\ ck_markedQ = {}
    /\ ck_hereQ = {}
    /\ ck_pendingQ = {}
    /\ ck_saved = NeverSaved

\* CheckpointStore.mark_completed(q)
MarkCompleted(q) ==
    /\ ck_pc = "idle"
    /\ ck_completed' = ck_completed \cup {query_key(q)}
    /\ ck_markedQ' = ck_markedQ \cup {q}
    /\ ck_hereQ' = ck_hereQ \cup {q}
    /\ UNCHANGED <<ck_file, ck_pc, ck_buf, fs_status, fs_completed, ck_pendingQ, ck_saved,
                   outsideCk>>

\* save() up to its first write: the text is built, then open(path, "w")
\* creates or truncates the file
SaveOpen ==
    /\ ck_pc = "idle"
    /\ ck_buf' = Dumps(ck_completed)
    /\ ck_file' = FileWith(<<>>)
    /\ ck_pc' = "saving"
    /\ ck_pendingQ' = ck_hereQ
    /\ UNCHANGED <<ck_completed, fs_status, fs_completed, ck_markedQ, ck_hereQ, ck_saved,
                   outsideCk>>

\* part of the buffered text reaches the file before the close
SaveFlush ==
    /\ ck_pc = "saving"
    /\ \E n \in (Len(ck_file.text) + 1)..Len(ck_buf) :
          ck_file' = FileWith(SubSeq(ck_buf, 1, n))
    /\ UNCHANGED <<ck_completed, ck_pc, ck_buf, fs_status, fs_completed, ckHist, outsideCk>>

\* the "async with" block ends: everything is written and save() returns
SaveClose ==
    /\ ck_pc = "saving"
    /\ ck_file' = FileWith(ck_buf)
    /\ ck_pc' = "idle"
    /\ ck_saved' = [some |-> TRUE, queries |-> ck_pendingQ, text |-> ck_buf]
    /\ UNCHANGED <<ck_completed, ck_buf, fs_status, fs_completed, ck_markedQ, ck_hereQ,
                   ck_pendingQ, outsideCk>>

\* the process dies; the file stays as it is
Crash ==
    /\ ck_pc \in {"idle", "saving", "load_failed"}
    /\ ck_pc' = "down"
    /\ ck_completed' = {}
    /\ ck_buf' = <<>>
    /\ ck_hereQ' = {}
    /\ UNCHANGED <<ck_file, fs_status, fs_completed, ck_markedQ, ck_pendingQ, ck_saved,
                   outsideCk>>

\* CheckpointStore.load() of the next run: a missing file leaves the set empty,
\* a text json.loads rejects makes load() raise
RunLoad ==
    /\ ck_pc = "down"
    /\ IF ~ck_file.exists
       THEN ck_completed' = {} /\ ck_pc' = "idle"
       ELSE IF WellFormed(ck_file.text)
       THEN ck_completed' = Loads(ck_file.text) /\ ck_pc' = "idle"
       ELSE ck_completed' = {} /\ ck_pc' = "load_failed"
    /\ UNCHANGED <<ck_file, ck_buf, fs_status, fs_completed, ckHist, outsideCk>>

\* a fresh CheckpointStore on the same path calls load()
FreshLoad ==
    /\ fs_status = "none"
    /\ IF ~ck_file.exists
       THEN fs_completed' = {} /\ fs_status' = "absent"
       ELSE IF WellFormed(ck_file.text)
       THEN fs_completed' = Loads(ck_file.text) /\ fs_status' = "loaded"
       ELSE fs_completed' = {} /\ fs_status' = "error"
    /\ UNCHANGED <<ck_completed, ck_file, ck_pc, ck_buf, ckHist, outsideCk>>

\* the fresh store is dropped
FreshDrop ==
    /\ fs_status # "none"
    /\ fs_status' = "none"
    /\ fs_completed' = {}
    /\ UNCHANGED <<ck_completed, ck_file, ck_pc, ck_buf, ckHist, outsideCk>>

\* a checkpoint store nobody uses
CkQuiet == CkInit /\ CkHistInit

(* ---------------------------- query executor --------------------------- *)

\* source hints: 0 is the RSS source (no daily limit), 1 a JSON API with a limit
XSrcs == {0, 1}
\* the regions the run is configured with, by slug, in list order
Regions == {0, 1}
StateLevel == 0
DistrictLevel == 1
\* what a call of the source came to: a success with articles, or a failure
ExecOutcomes == {"articles", "failed"}

XQuery(s, r, lvl) ==
    [source_hint |-> s, state_slug |-> r, language |-> 0, level |-> lvl,
     query_string |-> 0, category |-> 0]

\* a set of region slugs as a list in region order
RECURSIVE InOrder(_)
InOrder(rs) == IF rs = {} THEN <<>> ELSE <<Min(rs)>> \o InOrder(rs \ {Min(rs)})

\* a generator that lists the regions last to first
generate_state_queries_reversed(s) ==
    [i \in 1..Cardinality(Regions) |->
        XQuery(s, InOrder(Regions)[Cardinality(Regions) + 1 - i], StateLevel)]

\* QueryGenerator.generate_state_queries, one query per region and source
generate_state_queries(s) ==
    [i \in 1..Cardinality(Regions) |-> XQuery(s, InOrder(Regions)[i], StateLevel)]

\* QueryGenerator.generate_district_queries, one batch per active region
generate_district_queries(active, s) ==
    [i \in 1..Cardinality(active) |-> XQuery(s, InOrder(active)[i], DistrictLevel)]

\* SourceScheduler.remaining_budget of source s (NoLimit for None)
XRemaining(s) ==
    IF xs_limit[s] = NoLimit THEN NoLimit
    ELSE IF xs_limit[s] - xs_count[s] > 0 THEN xs_limit[s] - xs_count[s] ELSE 0

\* the budget stop of the per-source loop and of the Phase-2 source choice
BudgetGone(s) == XRemaining(s) # NoLimit /\ XRemaining(s) <= 0

\* a write of `buf` from offset 0 into a file that holds `old`
Overlay(old, buf) ==
    IF Len(buf) >= Len(old) THEN buf ELSE buf \o SubSeq(old, Len(buf) + 1, Len(old))

\* an "except* ValueError" in place of "except* Exception"
ExceptStarCatches_narrow(exc) == exc = "ValueError"

\* except* Exception: the members of the group the handler takes
ExceptStarCatches(exc) == exc \in {"OSError", "ValueError", "Exception"}

Unfinished(s) == t_pc[s] \in {"loop", "executing", "save_open", "save_close"}

\* the tasks of a phase as the TaskGroup creates them
StartTasks(lists) ==
    /\ t_pc' = [s \in XSrcs |-> IF s \in DOMAIN lists THEN "loop" ELSE "none"]
    /\ t_queries' = [s \in XSrcs |-> IF s \in DOMAIN lists THEN lists[s] ELSE <<>>]
    /\ t_idx' = [s \in XSrcs |-> 1]
    /\ t_local' = [s \in XSrcs |-> {}]
    /\ t_buf' = [s \in XSrcs |-> <<>>]
    /\ x_abort' = FALSE
    /\ x_errors' = {}
    /\ x_results' = {}

\* main(): schedulers and executor are built, then run_collection starts
\* Phase 1 with one task per source over the state queries
FreshRun(loaded) ==
    [rc_pc |-> "phase1", x_deadline |-> FALSE, x_abort |-> FALSE,
     x_errors |-> {}, x_results |-> {}, x_articles |-> {},
     t_pc |-> [s \in XSrcs |-> "loop"],
     t_queries |-> [s \in XSrcs |-> generate_state_queries(s)],
     t_idx |-> [s \in XSrcs |-> 1],
     t_local |-> [s \in XSrcs |-> {}],
     t_buf |-> [s \in XSrcs |-> <<>>],
     xs_count |-> [s \in XSrcs |-> 0],
     x_issued |-> {}, x_loaded |-> loaded, x_skipped |-> {}, x_raisedIn |-> {}]

XRunInit(loaded) ==
    LET r == FreshRun(loaded)
    IN /\ rc_pc = r.rc_pc /\ x_deadline = r.x_deadline /\ x_abort = r.x_abort
       /\ x_errors = r.x_errors /\ x_results = r.x_results
       /\ x_articles = r.x_articles /\ t_pc = r.t_pc /\ t_queries = r.t_queries
       /\ t_idx = r.t_idx /\ t_local = r.t_local /\ t_buf = r.t_buf
       /\ xs_count = r.xs_count /\ x_issued = r.x_issued /\ x_loaded = r.x_loaded
       /\ x_skipped = r.x_skipped /\ x_raisedIn = r.x_raisedIn

XRunStart(loaded) ==
    LET r == FreshRun(loaded)
    IN /\ rc_pc' = r.rc_pc /\ x_deadline' = r.x_deadline /\ x_abort' = r.x_abort
       /\ x_errors' = r.x_errors /\ x_results' = r.x_results
       /\ x_articles' = r.x_articles /\ t_pc' = r.t_pc /\ t_queries' = r.t_queries
       /\ t_idx' = r.t_idx /\ t_local' = r.t_local /\ t_buf' = r.t_buf
       /\ xs_count' = r.xs_count /\ x_issued' = r.x_issued /\ x_loaded' = r.x_loaded
       /\ x_skipped' = r.x_skipped /\ x_raisedIn' = r.x_raisedIn

\* the task's loop is over: _run_source extends the shared results
TaskEnds(s, local) ==
    /\ t_pc' = [t_pc EXCEPT ![s] = "done"]
    /\ x_results' = x_results \cup local

\* top of the per-source loop: deadline stop, checkpoint skip, else the call
\* of scheduler.execute (a task the TaskGroup has asked to cancel runs on to
\* its next await, which is inside execute or save)
XLoop(s) ==
    /\ rc_pc \in {"phase1", "phase2"}
    /\ t_pc[s] = "loop"
    /\ IF t_idx[s] > Len(t_queries[s]) \/ x_deadline
       THEN /\ TaskEnds(s, t_local[s])
            /\ UNCHANGED <<t_idx, x_issued, x_skipped>>
       ELSE IF is_completed(ck_completed, t_queries[s][t_idx[s]])
       THEN /\ t_idx' = [t_idx EXCEPT ![s] = t_idx[s] + 1]
            /\ x_skipped' = x_skipped \cup {t_queries[s][t_idx[s]]}
            /\ UNCHANGED <<t_pc, x_results, x_issued>>
       ELSE /\ t_pc' = [t_pc EXCEPT ![s] = "executing"]
            /\ x_issued' = x_issued \cup {t_queries[s][t_idx[s]]}
            /\ UNCHANGED <<t_idx, x_results, x_skipped>>
    /\ UNCHANGED <<rc_pc, x_restarted, x_deadline, x_abort, x_errors, x_articles,
                   t_queries, t_local, t_buf, xsVars, x_loaded, x_raisedIn,
                   ck_completed, ck_file, outsideX>>

\* a loop that marks a query only when its result carries articles
CompletedAfter_articles_only(completed, q, outcome) ==
    IF outcome = "articles" THEN completed \cup {query_key(q)} ELSE completed

\* _checkpoint after "await self._checkpoint.mark_completed(query)", which
\* the loop reaches whatever the result of execute was
CompletedAfter(completed, q, outcome) == completed \cup {query_key(q)}

\* scheduler.execute returns a QueryResult; the query is marked completed and
\* save() builds its text
XExecReturns(s, out) ==
    /\ t_pc[s] = "executing"
    /\ ~x_abort
    /\ LET q == t_queries[s][t_idx[s]]
           exhausted == BudgetExhausted(xs_count[s], xs_limit[s])
           res == [query |-> q,
                   outcome |-> IF exhausted THEN "budget_exhausted" ELSE out]
       IN /\ t_local' = [t_local EXCEPT ![s] = t_local[s] \cup {res}]
          /\ xs_count' = [xs_count EXCEPT ![s] =
                            IF ~exhausted /\ out = "articles"
                            THEN xs_count[s] + 1 ELSE xs_count[s]]
          /\ ck_completed' = CompletedAfter(ck_completed, q, res.outcome)
          /\ t_buf' = [t_buf EXCEPT ![s] = Dumps(CompletedAfter(ck_completed, q, res.outcome))]
    /\ t_pc' = [t_pc EXCEPT ![s] = "save_open"]
    /\ UNCHANGED <<rcVars, t_queries, t_idx, xs_limit, xHist, ck_file, outsideX>>

\* the skips of scheduler.execute that make no call of the source, in the
\* order execute tests them: an open breaker, then the budget (XExecReturns),
\* then the language
SkipOutcomes == {"circuit_breaker_open", "unsupported_language"}

\* scheduler.execute returns a skip result: no call is counted; the query is
\* marked completed and save() builds its text like after a call
XExecSkips(s, reason) ==
    /\ t_pc[s] = "executing"
    /\ ~x_abort
    /\ reason = "unsupported_language" => ~BudgetExhausted(xs_count[s], xs_limit[s])
    /\ LET q == t_queries[s][t_idx[s]]
           res == [query |-> q, outcome |-> reason]
       IN /\ t_local' = [t_local EXCEPT ![s] = t_local[s] \cup {res}]
          /\ ck_completed' = CompletedAfter(ck_completed, q, reason)
          /\ t_buf' = [t_buf EXCEPT ![s] = Dumps(CompletedAfter(ck_completed, q, reason))]
    /\ t_pc' = [t_pc EXCEPT ![s] = "save_open"]
    /\ UNCHANGED <<rcVars, t_queries, t_idx, xsVars, xHist, ck_file, outsideX>>

\* save(): open(path, "w") creates or truncates the file
XSaveOpen(s) ==
    /\ t_pc[s] = "save_open"
    /\ ~x_abort
    /\ ck_file' = FileWith(<<>>)
    /\ t_pc' = [t_pc EXCEPT ![s] = "save_close"]
    /\ UNCHANGED <<rcVars, t_queries, t_idx, t_local, t_buf, xsVars, xHist,
                   ck_completed, outsideX>>

\* save(): the text is written and the file closed; then the budget stop
XSaveClose(s) ==
    /\ t_pc[s] = "save_close"
    /\ ~x_abort
    /\ ck_file' = FileWith(Overlay(ck_file.text, t_buf[s]))
    /\ IF BudgetGone(s)
       THEN /\ TaskEnds(s, t_local[s])
            /\ UNCHANGED t_idx
       ELSE /\ t_idx' = [t_idx EXCEPT ![s] = t_idx[s] + 1]
            /\ t_pc' = [t_pc EXCEPT ![s] = "loop"]
            /\ UNCHANGED x_results
    /\ UNCHANGED <<rc_pc, x_restarted, x_deadline, x_abort, x_errors, x_articles,
                   t_queries, t_local, t_buf, xsVars, xHist, ck_completed, outsideX>>

\* save() raises an OSError (mkdir, open or write fails): the task ends with
\* it and the TaskGroup starts cancelling the others
XSaveFails(s) ==
    /\ t_pc[s] \in {"save_open", "save_close"}
    /\ ~x_abort
    /\ t_pc' = [t_pc EXCEPT ![s] = "failed"]
    /\ x_errors' = x_errors \cup {"OSError"}
    /\ x_raisedIn' = x_raisedIn \cup {"OSError"}
    /\ x_abort' = TRUE
    /\ UNCHANGED <<rc_pc, x_restarted, x_deadline, x_results, x_articles,
                   t_queries, t_idx, t_local, t_buf, xsVars, x_issued, x_loaded, x_skipped,
                   ck_completed, ck_file, outsideX>>

\* scheduler.execute lets an asyncio.CancelledError through (raised in the
\* HTTP client, or thrown in by the aborting TaskGroup): the task ends
\* cancelled, which the TaskGroup does not count as an error
XExecCancelled(s) ==
    /\ t_pc[s] = "executing"
    /\ t_pc' = [t_pc EXCEPT ![s] = "cancelled"]
    /\ x_raisedIn' = x_raisedIn \cup {"CancelledError"}
    /\ UNCHANGED <<rcVars, t_queries, t_idx, t_local, t_buf, xsVars, x_issued, x_loaded,
                   x_skipped, ck_completed, ck_file, outsideX>>

\* the aborting TaskGroup cancels a task that has not started yet or that is
\* suspended inside save(); a save() it interrupts may or may not have
\* truncated the file, and a file it has opened is closed on the way out
XTaskCancelled(s) ==
    /\ x_abort
    /\ \/ t_pc[s] = "loop" /\ t_idx[s] = 1 /\ t_local[s] = {}
       \/ t_pc[s] \in {"save_open", "save_close"}
    /\ t_pc' = [t_pc EXCEPT ![s] = "cancelled"]
    /\ \/ ck_file' = ck_file
       \/ t_pc[s] = "save_open" /\ ck_file' = FileWith(<<>>)
       \/ t_pc[s] = "save_close" /\ ck_file' = FileWith(Overlay(ck_file.text, t_buf[s]))
    /\ x_raisedIn' = x_raisedIn \cup {"CancelledError"}
    /\ UNCHANGED <<rcVars, t_queries, t_idx, t_local, t_buf, xsVars, x_issued, x_loaded,
                   x_skipped, ck_completed, outsideX>>

\* the collection deadline passes
XDeadline ==
    /\ rc_pc \in {"phase1", "phase2"}
    /\ ~x_deadline
    /\ x_deadline' = TRUE
    /\ UNCHANGED <<rc_pc, x_restarted, x_abort, x_errors, x_results, x_articles,
                   taskVars, xsVars, xHist, ck_completed, ck_file, outsideX>>

\* a TaskGroup that is left as soon as one task is over
AllTasksOver_first == \E s \in XSrcs : ~Unfinished(s)

\* async with asyncio.TaskGroup(): the block is left when every task is over
AllTasksOver == \A s \in XSrcs : ~Unfinished(s)

\* the exceptions of the TaskGroup's ExceptionGroup that "except*" leaves
Uncaught == {e \in x_errors : ~ExceptStarCatches(e)}

ArticlesOf(results) == {r.query : r \in {x \in results : x.outcome = "articles"}}

\* district queries for every region through every source
DistrictLists_all(active) ==
    [s \in XSrcs |-> generate_district_queries(Regions, s)]

\* the sources Phase 2 goes through, with their district queries
DistrictLists(active) ==
    LET srcs == {s \in XSrcs : ~BudgetGone(s) /\ active # {}}
    IN [s \in srcs |-> generate_district_queries(active, s)]

\* a Phase-2 decision that does not look at the deadline
SkipPhase2_no_deadline(deadline, active, lists) ==
    active = {} \/ DOMAIN lists = {}

\* run_collection after Phase 1: district queries are skipped when the
\* deadline has been reached, no region is active, or no source has budget
SkipPhase2(deadline, active, lists) ==
    deadline \/ active = {} \/ DOMAIN lists = {}

\* Phase 1 is over: the TaskGroup is left, results are collected, active
\* regions are computed and Phase 2 is started or skipped
XJoinPhase1 ==
    /\ rc_pc = "phase1"
    /\ AllTasksOver
    /\ IF Uncaught # {}
       THEN /\ rc_pc' = "raised"
            /\ UNCHANGED <<x_abort, x_errors, x_results, x_articles, taskVars>>
       ELSE LET active == {q.state_slug : q \in ArticlesOf(x_results)}
                lists == DistrictLists(active)
            IN /\ x_articles' = x_articles \cup ArticlesOf(x_results)
               /\ IF SkipPhase2(x_deadline, active, lists)
                  THEN /\ rc_pc' = "returned"
                       /\ UNCHANGED <<x_abort, x_errors, x_results, taskVars>>
                  ELSE /\ rc_pc' = "phase2"
                       /\ StartTasks(lists)
    /\ UNCHANGED <<x_restarted, x_deadline, xsVars, xHist, ck_completed, ck_file, outsideX>>

\* Phase 2 is over: run_collection returns all_articles
XJoinPhase2 ==
    /\ rc_pc = "phase2"
    /\ AllTasksOver
    /\ IF Uncaught # {}
       THEN /\ rc_pc' = "raised"
            /\ UNCHANGED x_articles
       ELSE /\ rc_pc' = "returned"
            /\ x_articles' = x_articles \cup ArticlesOf(x_results)
    /\ UNCHANGED <<x_restarted, x_deadline, x_abort, x_errors, x_results,
                   taskVars, xsVars, xHist, ck_completed, ck_file, outsideX>>

\* the process is killed while run_collection is running and the pipeline
\* is started again on the file it left: checkpoint.load(), new schedulers,
\* then run_collection (with no file left, the restart is the first run again)
XKillRestart ==
    /\ rc_pc \in {"phase1", "phase2"}
    /\ ~x_restarted
    /\ ck_file.exists
    /\ x_restarted' = TRUE
    /\ IF ~WellFormed(ck_file.text)
       THEN /\ rc_pc' = "load_failed"
            /\ UNCHANGED <<x_deadline, x_abort, x_errors, x_results, x_articles,
                           taskVars, xs_count, xHist, ck_completed>>
       ELSE LET loaded == Loads(ck_file.text)
            IN /\ ck_completed' = loaded
               /\ XRunStart(loaded)
    /\ UNCHANGED <<xs_limit, ck_file, outsideX>>

\* an executor nobody runs
XQuiet ==
    /\ x_restarted = FALSE
    /\ xs_limit = [s \in XSrcs |-> NoLimit]
    /\ XRunInit({})

InitExec ==
    /\ now = 0 /\ CBQuiet /\ SchedQuiet
    /\ CkQuiet /\ PipeQuiet
    /\ x_restarted = FALSE
    /\ xs_limit \in {f \in [XSrcs -> {NoLimit} \cup (1..MaxLimit)] : f[0] = NoLimit /\ f[1] # NoLimit}
    /\ XRunInit({})

NextExec ==
    \/ \E s \in XSrcs : XLoop(s)
    \/ \E s \in XSrcs, out \in ExecOutcomes : XExecReturns(s, out)
    \/ \E s \in XSrcs : XSaveOpen(s)
    \/ \E s \in XSrcs : XSaveClose(s)
    \/ \E s \in XSrcs : XSaveFails(s)
    \/ \E s \in XSrcs : XExecCancelled(s)
    \/ \E s \in XSrcs : XTaskCancelled(s)
    \/ XDeadline
    \/ XJoinPhase1
    \/ XJoinPhase2
    \/ XKillRestart

SpecExec == InitExec /\ [][NextExec]_vars

\* the collection core at rest
CoreQuiet == now = 0 /\ CBQuiet /\ SchedQuiet /\ CkQuiet /\ XQuiet

(* ------------------------- claims on the executor ---------------------- *)

\* C4: run_collection never raises: whatever exception a per-source task ends
\* with, in either phase, the call goes on and returns its list.
C4_RunCollectionNeverRaises == rc_pc # "raised"

C4_Witness ==
    /\ rc_pc = "returned"
    /\ "OSError" \in x_raisedIn
    /\ \E s \in XSrcs : t_pc[s] = "failed"

\* C12: once the deadline has been reached no loop hands another query to
\* scheduler.execute, Phase 1 is not followed by Phase 2, and the list
\* run_collection returns holds the articles of every loop that ran to its end.
C12_DeadlineStopsCollection ==
    [][x_deadline =>
         /\ x_issued' \subseteq x_issued
         /\ (rc_pc = "phase1" => rc_pc' # "phase2")
         /\ (rc_pc' = "returned" =>
               \A s \in XSrcs :
                   t_pc'[s] = "done" => ArticlesOf(t_local'[s]) \subseteq x_articles')]_vars

\* C12 witness: the deadline passed during Phase 1 with articles gathered, a
\* loop stopped before its last state query, and the call returned with no
\* district query issued.
C12_Witness ==
    /\ rc_pc = "returned"
    /\ x_deadline
    /\ x_articles # {}
    /\ \A q \in x_issued : q.level = StateLevel
    /\ \E s \in XSrcs :
          /\ t_pc[s] = "done" /\ t_idx[s] <= Len(t_queries[s])
          /\ ~BudgetGone(s) /\ ArticlesOf(t_local[s]) # {}

\* C5: a query whose fingerprint is in the checkpoint the run loaded is never
\* handed to scheduler.execute, in neither phase.
C5_ResumeSkipsCompleted == \A q \in x_issued : query_key(q) \notin x_loaded

C5_Witness ==
    /\ x_restarted
    /\ rc_pc = "returned"
    /\ \E q \in x_skipped : q.level = StateLevel
    /\ \E q \in x_skipped : q.level = DistrictLevel
    /\ x_issued # {}

\* C25: an I/O error that CheckpointStore.save() raises while the executor is
\* collecting reaches the caller of run_collection as a raised exception.
C25_SaveErrorPropagates ==
    (rc_pc \in {"returned", "raised"} /\ "OSError" \in x_raisedIn) => rc_pc = "raised"

\* C29: a fingerprint enters the checkpoint only in the step in which
\* scheduler.execute returns for its query, and the fingerprint of a query
\* whose execute is still running is not in the checkpoint.
C29_MarkedAfterExecuteReturns ==
    [][/\ \A k \in ck_completed' \ ck_completed :
             \/ x_restarted' # x_restarted
             \/ \E s \in XSrcs :
                    /\ t_pc[s] = "executing" /\ t_pc'[s] = "save_open"
                    /\ k = query_key(t_queries[s][t_idx[s]])
       /\ \A s \in XSrcs :
             t_pc'[s] = "executing"
                 => query_key(t_queries'[s][t_idx'[s]]) \notin ck_completed']_vars

\* C29 witness: a restarted run that skipped a loaded query, has added a
\* fingerprint of its own and has another execute running, after a loop of
\* the first run was stopped by the deadline or the budget.
C29_Witness ==
    /\ x_restarted
    /\ x_skipped # {}
    /\ ck_completed # x_loaded
    /\ \E s \in XSrcs : t_pc[s] = "executing"

\* C30: what run_collection hands on holds the articles of every QueryResult
\* a scheduler returned during the phase that ends, also for the source tasks
\* that ended with an exception.
C30_ReturnsAllCollected ==
    [][(rc_pc \in {"phase1", "phase2"} /\ rc_pc' \in {"phase2", "returned"})
          => \A s \in XSrcs : ArticlesOf(t_local[s]) \subseteq x_articles']_vars

\* the queries handed to scheduler.execute in this step
NewlyIssued == x_issued' \ x_issued

\* C31: a district query for region R goes through source S only if a Phase-1
\* result of this run for R had an article and S had budget left (or no
\* limit) when Phase 2 began; a region without Phase-1 article gets none.
C31_Phase2Scope ==
    [][/\ (rc_pc = "phase1" /\ rc_pc' = "phase2") =>
             \A s \in XSrcs : \A i \in DOMAIN t_queries'[s] :
                 /\ t_queries'[s][i].level = DistrictLevel
                 /\ t_queries'[s][i].source_hint = s
                 /\ xs_limit[s] = NoLimit \/ xs_limit[s] - xs_count[s] > 0
                 /\ \E r \in x_results :
                        /\ r.outcome = "articles" /\ r.query.level = StateLevel
                        /\ r.query.state_slug = t_queries'[s][i].state_slug
       /\ \A q \in NewlyIssued :
             q.level = DistrictLevel =>
                 /\ rc_pc = "phase2"
                 /\ \E i \in DOMAIN t_queries[q.source_hint] : t_queries[q.source_hint][i] = q
                 /\ \E a \in x_articles :
                        a.level = StateLevel /\ a.state_slug = q.state_slug]_vars

\* C31 witness: Phase 2 runs through the unlimited source only, the other one
\* having used up its budget, and only for the one region that had articles.
C31_Witness ==
    /\ rc_pc = "phase2"
    /\ t_pc[1] = "none" /\ t_pc[0] # "none"
    /\ \E q \in x_issued : q.level = DistrictLevel /\ q.source_hint = 0 /\ q.state_slug = 0
    /\ \A a \in x_articles : a.state_slug = 0
    /\ \E q \in x_issued : q.level = StateLevel /\ q.state_slug = 1

\* C32: a district query is issued only in Phase 2, which starts when every
\* Phase-1 task is over, so that no state query is in flight or still to be
\* issued by then; no state query is issued after a district query.
C32_PhaseOrdering ==
    [][/\ (rc_pc = "phase1" /\ rc_pc' = "phase2") =>
             \A s \in XSrcs : t_pc[s] \in {"done", "failed", "cancelled", "none"}
       /\ \A q \in NewlyIssued :
             /\ q.level = DistrictLevel =>
                   /\ rc_pc = "phase2"
                   /\ \A s \in XSrcs : \A i \in DOMAIN t_queries[s] :
                          t_queries[s][i].level = DistrictLevel
             /\ q.level = StateLevel =>
                   /\ rc_pc = "phase1"
                   /\ \A d \in x_issued : d.level = StateLevel]_vars

\* C32 witness: a district query for region 0 is running after two state
\* queries for region 0 were issued, one by each source.
C32_Witness ==
    /\ rc_pc = "phase2"
    /\ \E s \in XSrcs : t_pc[s] = "executing" /\ t_queries[s][t_idx[s]].state_slug = 0
    /\ \A s \in XSrcs : XQuery(s, 0, StateLevel) \in x_issued

\* C33: a source's loop hands its queries to the scheduler one at a time and
\* in list order: the query issued is the one at the loop's position, every
\* query before it was skipped or issued earlier, none after it was issued,
\* and within a phase the regions come in the order of the region list.
C33_PerSourceSequencing ==
    [][\A q \in NewlyIssued :
          LET s == q.source_hint
          IN /\ t_pc[s] = "loop" /\ t_pc'[s] = "executing"
             /\ q = t_queries[s][t_idx[s]]
             /\ \A j \in DOMAIN t_queries[s] :
                    /\ j < t_idx[s] => t_queries[s][j] \in x_issued \cup x_skipped
                    /\ j > t_idx[s] => t_queries[s][j] \notin x_issued
             /\ \A d \in x_issued :
                    (d.source_hint = s /\ d.level = q.level) => d.state_slug < q.state_slug
             /\ Cardinality(NewlyIssued) = 1]_vars

\* C33 witness: both sources have an execute running at once, source 0 on
\* its second query and source 1 on its first.
C33_Witness ==
    /\ t_pc[0] = "executing" /\ t_idx[0] = 2
    /\ t_pc[1] = "executing" /\ t_idx[1] = 1
    /\ XQuery(0, 0, StateLevel) \in x_issued

\* no save() of a source task is under way, and none was left by an exception
AllSavesReturned ==
    /\ \A s \in XSrcs : t_pc[s] \notin {"save_open", "save_close"}
    /\ x_raisedIn = {}

\* C39: whatever the interleaving of the source tasks' saves, once all of them
\* have returned the checkpoint file is well-formed and holds exactly the
\* in-memory completed set.
C39_SharedCheckpointConsistent ==
    (AllSavesReturned /\ ~x_restarted /\ ck_file.exists) =>
        (WellFormed(ck_file.text) /\ Loads(ck_file.text) = ck_completed)

\* the executor over schedulers that also skip, with saves that end and a
\* process that may be killed and started again
NextSkip ==
    \/ \E s \in XSrcs : XLoop(s)
    \/ \E s \in XSrcs, out \in ExecOutcomes : XExecReturns(s, out)
    \/ \E s \in XSrcs, reason \in SkipOutcomes : XExecSkips(s, reason)
    \/ \E s \in XSrcs : XSaveOpen(s)
    \/ \E s \in XSrcs : XSaveClose(s)
    \/ XJoinPhase1
    \/ XJoinPhase2
    \/ XKillRestart

\* a first run in which the JSON source has its largest daily limit
InitSkip == InitExec /\ xs_limit[1] = MaxLimit

SpecSkip == InitSkip /\ [][NextSkip]_vars

\* the results execute has returned that carry no articles
NoArticleOutcomes == SkipOutcomes \cup {"budget_exhausted", "failed"}

\* C40: every query execute returned for, skipped and failed ones included, is
\* in the in-memory completed set before the source's next query is
\* considered, and no query whose fingerprint is in that set is issued.
C40_ReturnedIsRecorded ==
    [][/\ \A s \in XSrcs : \A r \in t_local'[s] : query_key(r.query) \in ck_completed'
       /\ \A s \in XSrcs :
              (t_idx'[s] > t_idx[s] \/ (t_pc[s] = "save_close" /\ t_pc'[s] = "done")) =>
                  query_key(t_queries[s][t_idx[s]]) \in ck_completed'
       /\ \A q \in NewlyIssued : query_key(q) \notin ck_completed]_vars

\* a source has moved on to its next query after a result without articles
C40_Witness ==
    \E s \in XSrcs :
        /\ t_pc[s] = "loop" /\ t_idx[s] > 1
        /\ \E r \in t_local[s] :
               /\ r.outcome \in NoArticleOutcomes
               /\ r.query = t_queries[s][t_idx[s] - 1]
               /\ query_key(r.query) \in ck_completed

InitCkpt == now = 0 /\ CBQuiet /\ SchedQuiet /\ CkInit /\ CkHistInit /\ XQuiet /\ PipeQuiet

NextCkpt ==
    \/ \E q \in CkQueries : MarkCompleted(q)
    \/ SaveOpen
    \/ SaveFlush
    \/ SaveClose
    \/ Crash
    \/ RunLoad
    \/ FreshLoad
    \/ FreshDrop

SpecCkpt == InitCkpt /\ [][NextCkpt]_vars

\* C6: once mark_completed(q) and then save() have returned, a fresh store
\* that loads the same path reports is_completed(q) for every such q, and
\* reports false for every query whose fingerprint was never marked.
C6_CheckpointRoundTrip ==
    [][ (fs_status = "none" /\ fs_status' # "none" /\ ck_pc = "idle" /\ ck_saved.some) =>
            /\ fs_status' = "loaded"
            /\ \A q \in CkQueries :
                  /\ q \in ck_saved.queries => is_completed(fs_completed', q)
                  /\ query_key(q) \notin KeysOf(ck_markedQ) =>
                        ~is_completed(fs_completed', q) ]_vars

\* C6 witness: two queries with different fingerprints were marked and saved,
\* and the fresh store that loaded the file holds both and nothing else.
C6_Witness ==
    /\ fs_status = "loaded"
    /\ ck_pc = "idle"
    /\ Cardinality(KeysOf(ck_saved.queries)) = 2
    /\ fs_completed = KeysOf(ck_saved.queries)
    /\ \E q \in CkQueries : ~is_completed(fs_completed, q)

\* C7: save() is atomic: at every moment, a crash included, the file holds
\* the complete text of a save (the previous one, or the new one once it is
\* in place); it is never empty or partially written.
C7_SaveIsAtomic ==
    ck_file.exists =>
        /\ WellFormed(ck_file.text)
        /\ ck_saved.some
        /\ ck_file.text = ck_saved.text

InitCB == now = 0 /\ CBInit /\ CBHistInit /\ SchedQuiet /\ CkQuiet /\ XQuiet /\ PipeQuiet

\* the monotonic clock advances while the scheduler is driven
SchedTick == now < MaxSchedTime /\ Tick

InitSched ==
    /\ now = 0 /\ CBInit /\ CBHistInit /\ SchedInit(SeqCallers) /\ SchedHistInit(SeqCallers)
    /\ CkQuiet /\ XQuiet /\ PipeQuiet

NextSched ==
    \/ SchedTick
    \/ \E p \in Callers, lang \in Langs : SeqExecStart(p, lang)
    \/ \E p \in Callers : CallSource(p)
    \/ \E p \in Callers, arts \in ArticleLists : SourceReturns(p, arts)
    \/ \E p \in Callers : SourceRateLimited(p)
    \/ \E p \in Callers : SourceRaises(p)
    \/ \E p \in Callers : Cancelled(p)

SpecSched == InitSched /\ [][NextSched]_vars

\* the wrapped source call of this execute ended in a failure
SourceCallFailed(p) == ex_outcome[p] \in {"rate_limit", "error", "cancelled"}

\* C1: execute always returns a QueryResult and never raises, whatever the
\* wrapped source call did (a list, any exception, a rate-limit signal that
\* outlived the retries, a cancellation); every failure gives success=false.
C1_ExecuteNeverRaises ==
    \A p \in Callers :
        ex_pc[p] = "done" =>
            /\ ex_res[p].kind = "result"
            /\ (SourceCallFailed(p) => ex_res[p].success = FALSE)

\* C2: with daily_limit = N, an execute begun after N executes returned
\* successfully from the source returns success=true, error=budget_exhausted,
\* no articles, and does not invoke source.search.
C2_BudgetExhaustedAfterLimit ==
    \A p \in Callers :
        (sch_limit # NoLimit /\ n_exec > 0 /\ ex_okBefore[p] >= sch_limit) =>
            /\ ex_pc[p] = "done"
            /\ ex_res[p] = QueryResult(TRUE, "budget_exhausted", <<>>)
            /\ ex_called[p] = 0

\* C2 witness: limit 2, two successful executes, then a third that was skipped.
C2_Witness ==
    /\ sch_limit = 2
    /\ ok_returns = 2
    /\ n_exec = 3
    /\ src_calls >= 2
    /\ \E p \in Callers :
          ex_okBefore[p] = 2 /\ ex_pc[p] = "done" /\ ex_res[p].error = "budget_exhausted"

\* C3: with daily_limit = N the wrapped source's search is invoked at most N
\* times in total, whatever the executes and the source outcomes.
C3_BudgetIsRequestCeiling ==
    sch_limit # NoLimit => src_calls <= sch_limit

\* the first skip condition that holds when execute is called with lang
FirstSkip(lang) ==
    IF cb_state = "open" /\ now - cb_last_failure_time < cb_timeout THEN "circuit_breaker_open"
    ELSE IF sch_limit # NoLimit /\ sch_count >= sch_limit THEN "budget_exhausted"
    ELSE IF ~sch_any_lang /\ lang \notin sch_supported THEN "unsupported_language"
    ELSE "none"

\* C27: execute tests breaker-open, budget-exhausted, unsupported-language in
\* that order and returns the first that holds as a skip: success=true, that
\* tag, no articles, no permit or limiter taken, no source call, the daily
\* counter unchanged; when none holds the call goes on to the semaphore.
C27_SkipOrder ==
    [][n_exec' = n_exec + 1 =>
          \E p \in Callers :
              /\ ex_pc[p] \in {"idle", "done"}
              /\ \A q \in Callers \ {p} : ex_pc'[q] = ex_pc[q] /\ ex_res'[q] = ex_res[q]
              /\ IF FirstSkip(ex_lang'[p]) # "none"
                 THEN /\ ex_pc'[p] = "done"
                      /\ ex_res'[p] = QueryResult(TRUE, FirstSkip(ex_lang'[p]), <<>>)
                      /\ sch_permits' = sch_permits
                      /\ src_calls' = src_calls /\ ex_called'[p] = 0
                      /\ sch_count' = sch_count
                 ELSE ex_pc'[p] \in {"limiter", "sem_wait"} /\ ex_res'[p] = NoResult]_vars

\* C27 witness: a query in an unsupported language met an exhausted budget and
\* was skipped for the budget.
C27_Witness ==
    \E p \in Callers :
        /\ ex_pc[p] = "done" /\ ex_lang[p] = "sa" /\ ~sch_any_lang
        /\ sch_limit = 1 /\ sch_count = 1
        /\ ex_res[p] = QueryResult(TRUE, "budget_exhausted", <<>>)

\* C28: every execute that called the source adds exactly one to the daily
\* counter when the call ends, with articles or with an exception, and never
\* before; remaining_budget follows the counter.
C28_CountsEveryEndedCall ==
    [][\A p \in Callers :
          IF ex_pc[p] = "call" /\ ex_pc'[p] = "done"
          THEN sch_count' = sch_count + 1
          ELSE ex_pc'[p] # ex_pc[p] => sch_count' = sch_count]_vars

\* the scheduler under callers that do not wait for each other
ConcCallers == {1, 2}

InitConc ==
    /\ now = 0 /\ CBInit /\ CBHistInit /\ SchedInit(ConcCallers) /\ SchedHistInit(ConcCallers)
    /\ CkQuiet /\ XQuiet /\ PipeQuiet

NextConc ==
    \/ SchedTick
    \/ \E p \in Callers : ExecStart(p, "en")
    \/ \E p \in Callers : SemAcquire(p)
    \/ \E p \in Callers : CallSource(p)
    \/ \E p \in Callers : SourceReturns(p, <<>>)
    \/ \E p \in Callers : SourceRaises(p)
    \/ \E p \in Callers : Cancelled(p)

SpecConc == InitConc /\ [][NextConc]_vars

\* an execute that has passed the skip checks and has not ended
InFlight(p) == ex_pc[p] \in {"sem_wait", "limiter", "call"}

\* C34: while the breaker is half-open and the probe it let through is still
\* in flight, an execute that arrives is short-circuited with
\* circuit_breaker_open and does not go on towards the source.
C34_HalfOpenSingleProbe ==
    [][\A p \in Callers :
          (/\ cb_state = "half_open"
           /\ \E q \in Callers \ {p} : InFlight(q)
           /\ ex_pc[p] \in {"idle", "done"}
           /\ n_exec' = n_exec + 1
           /\ ex_pc'[p] # ex_pc[p] \/ ex_res'[p] # ex_res[p])
          => /\ ex_pc'[p] = "done"
             /\ ex_res'[p] = QueryResult(TRUE, "circuit_breaker_open", <<>>)]_vars

\* C11: inside one execute the source is invoked again only after it raised
\* the rate-limit signal and at most MaxAttempts times; articles at attempt k
\* give success after k-1 signals, MaxAttempts signals give success=false, and
\* any other exception ends the execute with success=false and no further
\* invocation.
C11_RetryPolicy ==
    \A p \in Callers :
        /\ ex_called[p] <= MaxAttempts
        /\ ex_pc[p] = "call" => ex_called[p] = ex_signals[p] + 1
        /\ (ex_pc[p] = "done" /\ ex_outcome[p] = "articles") =>
              /\ ex_res[p].kind = "result" /\ ex_res[p].success = TRUE
              /\ ex_res[p].error = "none"
              /\ ex_called[p] = ex_signals[p] + 1
        /\ (ex_pc[p] = "done" /\ ex_outcome[p] = "rate_limit") =>
              /\ ex_res[p].kind = "result" /\ ex_res[p].success = FALSE
              /\ ex_signals[p] = MaxAttempts /\ ex_called[p] = MaxAttempts
        /\ (ex_pc[p] = "done" /\ ex_outcome[p] = "error") =>
              /\ ex_res[p].kind = "result" /\ ex_res[p].success = FALSE
              /\ ex_called[p] = ex_signals[p] + 1

\* C11 witness: two rate-limit signals, then the third attempt returns one article.
C11_Witness ==
    \E p \in Callers :
        /\ ex_pc[p] = "done" /\ ex_outcome[p] = "articles"
        /\ ex_signals[p] = 2 /\ ex_called[p] = 3
        /\ ex_res[p] = QueryResult(TRUE, "none", <<"a1">>)

NextCB == Tick \/ CBRecordFailure \/ CBRecordSuccess \/ CBIsOpen

SpecCB == InitCB /\ [][NextCB]_vars

\* the step is a record_failure call / a record_success call / an is_open read
IsFailureStep == cb_log' = Append(cb_log, "F")
IsSuccessStep == cb_log' = Append(cb_log, "S")
IsCheckStep == cb_checks' = cb_checks + 1

\* C8: a record_failure on a closed breaker opens it exactly when it is the
\* failure_threshold-th consecutive failure since the last record_success
\* (or since construction); a closed breaker has seen fewer than that.
C8_TripAtThreshold ==
    [][ /\ (cb_state = "closed" /\ IsFailureStep) =>
              (cb_state' = "open" <=> TrailingF(cb_log') = cb_threshold)
        /\ (cb_state' = "closed" => TrailingF(cb_log') < cb_threshold) ]_vars

\* C8 witness: a success interrupted the failures, and the breaker tripped on
\* the second consecutive failure after it.
C8_Witness ==
    /\ cb_threshold = 2
    /\ cb_log = <<"F", "S", "F", "F">>
    /\ cb_prev = "closed"
    /\ cb_state = "open"

\* C9 as stated: after a trip at time T every is_open read before
\* T + reset_timeout returns true whatever record_* calls arrive, and the first
\* read at or after T + reset_timeout returns false and leaves half_open.
C9_OpenForTimeoutWhateverArrives ==
    [][ (cb_tripT >= 0 /\ IsCheckStep) =>
            /\ cb_ret' = BoolStr(now < cb_tripT + cb_timeout)
            /\ (now >= cb_tripT + cb_timeout => cb_state' = "half_open") ]_vars

\* C9 amended: after a trip, as long as no record_success has arrived and no
\* is_open read has returned false, every is_open read before L + reset_timeout
\* returns true and the first read at or after L + reset_timeout returns false
\* and leaves half_open, L being the time of the latest record_failure.
C9_OpenUntilTimeoutAfterLatestFailure ==
    [][ (cb_armed /\ IsCheckStep) =>
            /\ cb_ret' = BoolStr(now < cb_lastF + cb_timeout)
            /\ (now >= cb_lastF + cb_timeout => cb_state' = "half_open")
            /\ (now < cb_lastF + cb_timeout => cb_state' = "open") ]_vars

\* C9 witness: a read exactly reset_timeout after the latest failure returned
\* false and left the breaker half_open.
C9_Witness ==
    /\ cb_state = "half_open"
    /\ cb_ret = "False"
    /\ cb_checks >= 2
    /\ now = cb_lastF + cb_timeout

\* C10: in half_open one record_success closes the breaker with the counter at
\* zero, and one record_failure reopens it with the trip time set to the time
\* of that failure, so that reset_timeout has to elapse again.
C10_HalfOpenTransitions ==
    [][ cb_state = "half_open" =>
            /\ (IsSuccessStep => cb_state' = "closed" /\ cb_failure_count' = 0)
            /\ (IsFailureStep =>
                    /\ cb_state' = "open"
                    /\ cb_last_failure_time' = now
                    /\ ~ResetElapsed(now, cb_last_failure_time', cb_timeout)) ]_vars

\* C10 witness: a failure recorded in half_open reopened the breaker.
C10_Witness ==
    /\ cb_prev = "half_open"
    /\ cb_state = "open"
    /\ cb_log[Len(cb_log)] = "F"
    /\ cb_last_failure_time = now

(* ------------------------------ extraction ----------------------------- *)

RefIds == {"r1", "r2"}
RefLists == UNION {[1..n -> RefIds] : n \in 0..MaxRefs}

\* chunk_size = max_concurrent * 3
ChunkFactor == 3

\* chunks of max_concurrent refs
ChunkSize_one_round == xt_maxc

ChunkSize == xt_maxc * ChunkFactor

\* what extract_article met on one ref
ExtractOutcomes == {"resolve_error", "fetch_failed", "no_text", "text"}

\* Article(**ref.model_dump(), full_text=..., relevance_score=0.0)
MakeArticle(ref, text) == [ref |-> ref, full_text |-> text, relevance_score |-> 0]

\* extract_article: every failure gives the Article with full_text=None
extract_article(ref, outcome) ==
    MakeArticle(ref, IF outcome = "text" THEN "text" ELSE "None")

NoArticle == MakeArticle("none", "None")
Slot(st, art) == [st |-> st, art |-> art]

\* refs[i : i + chunk_size], for the 0-based i of the code
Chunk(refs, i, size) ==
    SubSeq(refs, i + 1, IF i + size < Len(refs) THEN i + size ELSE Len(refs))

\* a fill that starts one ref too far
Remaining_skip(refs, n) == SubSeq(refs, n + 2, Len(refs))

\* refs[len(articles):]
Remaining(refs, n) == SubSeq(refs, n + 1, Len(refs))

\* the call extract_articles(refs, max_concurrent, deadline)
XtInit ==
    /\ xt_refs \in RefLists
    /\ xt_maxc \in 1..MaxConcurrent
    /\ xt_deadline \in BOOLEAN
    /\ xt_pc = IF xt_refs = <<>> THEN "returned" ELSE "check"
    /\ xt_i = 0
    /\ xt_slots = <<>>
    /\ xt_articles = <<>>

\* the extraction deadline passes
XtDeadline ==
    /\ xt_pc \in {"check", "gather"}
    /\ ~xt_deadline
    /\ xt_deadline' = TRUE
    /\ UNCHANGED <<xt_refs, xt_maxc, xt_pc, xt_i, xt_slots, xt_articles, outsideXt>>

\* top of the chunk loop: end of range, deadline break, or the chunk's tasks
\* are handed to asyncio.gather
XtCheck ==
    /\ xt_pc = "check"
    /\ IF xt_i >= Len(xt_refs) \/ xt_deadline
       THEN /\ xt_pc' = "fill"
            /\ UNCHANGED xt_slots
       ELSE /\ xt_pc' = "gather"
            /\ xt_slots' = [k \in 1..Len(Chunk(xt_refs, xt_i, ChunkSize)) |->
                              Slot("waiting", NoArticle)]
    /\ UNCHANGED <<xt_refs, xt_maxc, xt_i, xt_articles, xt_deadline, outsideXt>>

Running == {k \in DOMAIN xt_slots : xt_slots[k].st = "running"}
Waiting == {k \in DOMAIN xt_slots : xt_slots[k].st = "waiting"}

\* _extract_one: the longest-waiting task gets the semaphore
XtAcquire ==
    /\ xt_pc = "gather"
    /\ Waiting # {}
    /\ Cardinality(Running) < xt_maxc
    /\ xt_slots' = [xt_slots EXCEPT ![Min(Waiting)] = Slot("running", NoArticle)]
    /\ UNCHANGED <<xt_refs, xt_maxc, xt_pc, xt_i, xt_articles, xt_deadline, outsideXt>>

\* extract_article of task k returns its Article
XtFinish(k, outcome) ==
    /\ xt_pc = "gather"
    /\ k \in Running
    /\ xt_slots' = [xt_slots EXCEPT ![k] =
                      Slot("done", extract_article(Chunk(xt_refs, xt_i, ChunkSize)[k], outcome))]
    /\ UNCHANGED <<xt_refs, xt_maxc, xt_pc, xt_i, xt_articles, xt_deadline, outsideXt>>

\* asyncio.gather returns the results in task order; articles.extend
XtGathered ==
    /\ xt_pc = "gather"
    /\ \A k \in DOMAIN xt_slots : xt_slots[k].st = "done"
    /\ xt_articles' = xt_articles \o [k \in DOMAIN xt_slots |-> xt_slots[k].art]
    /\ xt_i' = xt_i + ChunkSize
    /\ xt_slots' = <<>>
    /\ xt_pc' = "check"
    /\ UNCHANGED <<xt_refs, xt_maxc, xt_deadline, outsideXt>>

\* after the loop: unprocessed refs become Articles with full_text=None
XtFill ==
    /\ xt_pc = "fill"
    /\ xt_articles' =
          IF Len(xt_articles) < Len(xt_refs)
          THEN LET rest == Remaining(xt_refs, Len(xt_articles))
               IN xt_articles \o [k \in DOMAIN rest |-> MakeArticle(rest[k], "None")]
          ELSE xt_articles
    /\ xt_pc' = "returned"
    /\ UNCHANGED <<xt_refs, xt_maxc, xt_i, xt_slots, xt_deadline, outsideXt>>

InitExtract == CoreQuiet /\ XtInit /\ SaQuiet /\ LmQuiet /\ FrQuiet /\ DedupQuiet

NextExtract ==
    \/ XtDeadline
    \/ XtCheck
    \/ XtAcquire
    \/ \E k \in DOMAIN xt_slots, outcome \in ExtractOutcomes : XtFinish(k, outcome)
    \/ XtGathered
    \/ XtFill

SpecExtract == InitExtract /\ [][NextExtract]_vars

\* C13: extract_articles returns one Article per input ref, in input order,
\* the i-th Article carrying the i-th ref, whatever failed and wherever the
\* deadline fell.
C13_OneArticlePerRef ==
    xt_pc = "returned" =>
        /\ Len(xt_articles) = Len(xt_refs)
        /\ \A i \in DOMAIN xt_refs : xt_articles[i].ref = xt_refs[i]

\* C13 witness: two chunks of distinct refs, a success, a failure, and refs
\* left over by the deadline.
C13_Witness ==
    /\ xt_pc = "returned"
    /\ xt_deadline
    /\ xt_maxc = 1
    /\ Len(xt_refs) > ChunkFactor
    /\ xt_refs[1] # xt_refs[2]
    /\ xt_articles[1].full_text = "text"
    /\ xt_articles[2].full_text = "None"
    /\ xt_i = ChunkFactor

\* C36: the deadline is looked at only at the top of a chunk of
\* 3 * max_concurrent refs; found expired, the loop stops with no task started
\* for any later ref, and each later ref comes back with full_text absent and
\* relevance_score 0.0; a chunk that has started runs to its end whatever the
\* clock says.
C36_DeadlineAtChunkBoundaries ==
    [][IF xt_deadline' # xt_deadline
       THEN xt_pc' = xt_pc /\ xt_slots' = xt_slots /\ xt_articles' = xt_articles
       ELSE
         /\ xt_pc = "check" =>
               /\ xt_i % (ChunkFactor * xt_maxc) = 0
               /\ xt_deadline => xt_pc' = "fill" /\ xt_slots' = <<>>
               /\ (~xt_deadline /\ xt_i < Len(xt_refs)) =>
                     /\ xt_pc' = "gather"
                     /\ Len(xt_slots') = Min({ChunkFactor * xt_maxc, Len(xt_refs) - xt_i})
         /\ xt_pc = "gather" =>
               \/ /\ xt_pc' = "gather" /\ Len(xt_slots') = Len(xt_slots)
                  /\ \A k \in DOMAIN xt_slots :
                         xt_slots[k].st = "done" => xt_slots'[k] = xt_slots[k]
               \/ /\ xt_pc' = "check"
                  /\ \A k \in DOMAIN xt_slots : xt_slots[k].st = "done"
                  /\ Len(xt_articles') = Len(xt_articles) + Len(xt_slots)
         /\ xt_pc = "fill" =>
               /\ xt_pc' = "returned" /\ xt_slots' = <<>>
               /\ SubSeq(xt_articles', 1, Len(xt_articles)) = xt_articles
               /\ \A j \in (Len(xt_articles) + 1)..Len(xt_refs) :
                      xt_articles'[j] =
                          [ref |-> xt_refs[j], full_text |-> "None", relevance_score |-> 0]
         /\ xt_pc = "returned" => xt_pc' = "returned"]_vars

\* C36 witness: the deadline has passed while the first chunk is under way,
\* with a task done, a task running and a ref beyond the chunk.
C36_Witness ==
    /\ xt_pc = "gather" /\ xt_deadline /\ xt_i = 0
    /\ xt_maxc = 1 /\ Len(xt_refs) = 4
    /\ xt_slots[1].st = "done" /\ xt_slots[2].st = "running" /\ xt_slots[3].st = "waiting"

(* --------------------------- source adapters --------------------------- *)

Adapters == {"google", "newsdata", "gnews"}
NewsDataLimit == 200
GNewsLimit == 100

DailyLimitOf(adapter) ==
    IF adapter = "newsdata" THEN NewsDataLimit
    ELSE IF adapter = "gnews" THEN GNewsLimit ELSE NoLimit

\* one entry of a response body: well formed; a required field missing; a
\* date that does not parse; fields that fail ArticleRef validation; an entry
\* that is not an object; an object whose "source" is null
EntryKinds == {"good", "incomplete", "bad_date", "invalid", "not_object", "null_source"}
EntryLists == UNION {[1..n -> EntryKinds] : n \in 0..MaxEntries}

\* what the backend does with a request: no answer in time, no connection,
\* an HTTP error status, a body that is not JSON/XML, a JSON body that is not
\* an object, an error object, an object whose list field is a number, or a
\* body with entries
FailureKinds == {"timeout", "connect_error", "http_401", "http_403", "http_429",
                 "http_500", "garbage", "not_object", "api_error", "list_is_number"}
Response(kind, entries) == [kind |-> kind, entries |-> entries]
Responses == {Response(k, <<>>) : k \in FailureKinds}
                 \cup {Response("entries", es) : es \in EntryLists}

ListOut(items) == [kind |-> "list", items |-> items, exc |-> "none"]
RaisedOut(exc) == [kind |-> "raised", items |-> <<>>, exc |-> exc]

\* _newsdata_to_ref on entry i: "ref", "skip" (None) or the exception raised
newsdata_to_ref(e) ==
    IF e = "not_object" THEN "AttributeError"
    ELSE IF e \in {"incomplete", "bad_date", "invalid"} THEN "skip"
    ELSE "ref"

\* _gnews_to_ref: article.get("source", {}) is None for a null source
gnews_to_ref(e) ==
    IF e \in {"not_object", "null_source"} THEN "AttributeError"
    ELSE IF e \in {"incomplete", "bad_date", "invalid"} THEN "skip"
    ELSE "ref"

\* _entry_to_article_ref: feedparser hands over FeedParserDicts only, and
\* what it cannot read has no title or link
entry_to_article_ref(e) ==
    IF e \in {"good", "null_source"} THEN "ref" ELSE "skip"

ToRef(adapter, e) ==
    IF adapter = "newsdata" THEN newsdata_to_ref(e)
    ELSE IF adapter = "gnews" THEN gnews_to_ref(e)
    ELSE entry_to_article_ref(e)

\* the indices of `entries` that became ArticleRefs, in order
RECURSIVE Parsed(_, _, _)
Parsed(adapter, entries, i) ==
    IF i > Len(entries) THEN <<>>
    ELSE IF ToRef(adapter, entries[i]) = "ref"
         THEN <<i>> \o Parsed(adapter, entries, i + 1)
         ELSE Parsed(adapter, entries, i + 1)

\* the loop over the entries: the first exception leaves search
ParseLoop(adapter, entries) ==
    IF \E i \in DOMAIN entries : ToRef(adapter, entries[i]) \notin {"ref", "skip"}
    THEN RaisedOut("AttributeError")
    ELSE ListOut(Parsed(adapter, entries, 1))

\* search after `await client.get(...)`, for the JSON adapters
JsonSearch(adapter, resp) ==
    IF resp.kind \in {"timeout", "connect_error", "http_401", "http_403",
                      "http_429", "http_500", "garbage"}
    THEN ListOut(<<>>)
    ELSE IF resp.kind = "not_object" THEN RaisedOut("AttributeError")
    ELSE IF resp.kind = "api_error"
         THEN ListOut(<<>>)
    ELSE IF resp.kind = "list_is_number" THEN RaisedOut("TypeError")
    ELSE ParseLoop(adapter, resp.entries)

\* GoogleNewsSource.search after the request: feedparser reads what it can
RssSearch(resp) ==
    IF resp.kind = "entries" THEN ParseLoop("google", resp.entries) ELSE ListOut(<<>>)

SearchResult(adapter, resp) ==
    IF adapter = "google" THEN RssSearch(resp) ELSE JsonSearch(adapter, resp)

\* _daily_count after the request: counted once the backend has answered,
\* and set to the limit on HTTP 403
CountAfter(adapter, count, limit, resp) ==
    IF adapter = "google" \/ resp.kind \in {"timeout", "connect_error"} THEN count
    ELSE IF resp.kind = "http_403" THEN limit
    ELSE count + 1

SaInit ==
    /\ sa_adapter \in Adapters
    /\ sa_key \in BOOLEAN
    /\ sa_limit = DailyLimitOf(sa_adapter)
    /\ sa_count \in IF sa_adapter = "google" THEN {0} ELSE {0, sa_limit - 1, sa_limit}
    /\ sa_pc = "idle"
    /\ sa_calls = 0
    /\ sa_resp = Response("none", <<>>)
    /\ sa_out = [kind |-> "none", items |-> <<>>, exc |-> "none"]

\* search(query, language): the early returns, or the request is sent
SaSearch(lang_ok) ==
    /\ sa_pc \in {"idle", "done"}
    /\ sa_calls < MaxSearches
    /\ sa_calls' = sa_calls + 1
    /\ sa_resp' = Response("none", <<>>)
    /\ IF sa_adapter # "google" /\ (~sa_key \/ ~lang_ok \/ sa_count >= sa_limit)
       THEN /\ sa_pc' = "done"
            /\ sa_out' = ListOut(<<>>)
       ELSE /\ sa_pc' = "waiting"
            /\ sa_out' = [kind |-> "none", items |-> <<>>, exc |-> "none"]
    /\ UNCHANGED <<sa_adapter, sa_key, sa_limit, sa_count, outsideSa>>

\* the backend answers (or fails to) and search runs to its end
SaAnswer(resp) ==
    /\ sa_pc = "waiting"
    /\ sa_resp' = resp
    /\ sa_count' = CountAfter(sa_adapter, sa_count, sa_limit, resp)
    /\ sa_out' = SearchResult(sa_adapter, resp)
    /\ sa_pc' = "done"
    /\ UNCHANGED <<sa_adapter, sa_key, sa_limit, sa_calls, outsideSa>>

InitSource == CoreQuiet /\ XtQuiet /\ SaInit /\ LmQuiet /\ FrQuiet /\ DedupQuiet

NextSource ==
    \/ \E lang_ok \in BOOLEAN : SaSearch(lang_ok)
    \/ \E resp \in Responses : SaAnswer(resp)

SpecSource == InitSource /\ [][NextSource]_vars

\* the entries of a response that are well formed for the adapter
GoodEntries(adapter, entries) ==
    {i \in DOMAIN entries :
        entries[i] = "good" \/ (entries[i] = "null_source" /\ adapter # "gnews")}

Range(f) == {f[i] : i \in DOMAIN f}

\* C14: search never raises: whatever the backend did, it returns a list,
\* empty on a failure and holding the well-formed entries otherwise.
C14_SearchNeverRaises ==
    sa_pc = "done" =>
        /\ sa_out.kind = "list"
        /\ sa_resp.kind \in FailureKinds => sa_out.items = <<>>
        /\ sa_resp.kind = "entries" =>
              Range(sa_out.items) = GoodEntries(sa_adapter, sa_resp.entries)

\* C15: on HTTP 429 an API adapter raises RateLimitError instead of
\* returning an empty list.
C15_RateLimitSignalOn429 ==
    (sa_pc = "done" /\ sa_resp.kind = "http_429" /\ sa_adapter \in {"newsdata", "gnews"}) =>
        sa_out = RaisedOut("RateLimitError")

(* ----------------------------- rate limiters --------------------------- *)

\* the limiters' clock counts tenths of a second: the 0.1 s that
\* WindowLimiter.acquire adds to its wait is one tick
TicksPerSecond == 10
WindowSlack == 1

\* the clock is followed until the window has passed
WlHorizon == wl_window + WindowSlack + 2

\* WindowLimiter._prune at time t
Prune(ts, t, window) == SelectSeq(ts, LAMBDA x : x > t - window)

\* a wait without the window
WindowWait_short(oldest, window, t) == WindowSlack

\* the wait of a full window: oldest + window - now + 0.1
WindowWait(oldest, window, t) == oldest + window - t + WindowSlack

WlInit ==
    /\ lm_now \in {0, 1}
    /\ wl_max \in 1..MaxWinReq
    /\ wl_window \in {TicksPerSecond * w : w \in 1..MaxWindowSecs}
    /\ wl_timestamps = <<>>
    /\ wl_pc = [p \in WlCallers |-> "idle"]
    /\ wl_wake = [p \in WlCallers |-> 0]
    /\ wl_calls = 0
    /\ wl_returns = <<>>
    /\ wl_slept = <<>>

WlTick ==
    /\ lm_now < WlHorizon
    /\ lm_now' = lm_now + 1
    /\ UNCHANGED <<wlVars, outsideWl>>

\* acquire() up to its await: prune, then append and return, or sleep
WlAcquire(p) ==
    /\ wl_pc[p] = "idle"
    /\ wl_calls < wl_max + 1
    /\ wl_calls' = wl_calls + 1
    /\ LET ts == Prune(wl_timestamps, lm_now, wl_window)
           wait == WindowWait(ts[1], wl_window, lm_now)
       IN IF Len(ts) >= wl_max /\ wait > 0
          THEN /\ wl_timestamps' = ts
               /\ wl_pc' = [wl_pc EXCEPT ![p] = "sleeping"]
               /\ wl_wake' = [wl_wake EXCEPT ![p] = lm_now + wait]
               /\ UNCHANGED <<wl_returns, wl_slept>>
          ELSE /\ wl_timestamps' = Append(ts, lm_now)
               /\ wl_returns' = Append(wl_returns, lm_now)
               /\ wl_slept' = Append(wl_slept, FALSE)
               /\ UNCHANGED <<wl_pc, wl_wake>>
    /\ UNCHANGED <<lm_now, wl_max, wl_window, outsideWl>>

\* asyncio.sleep(wait) is over: prune, append, return
WlWake(p) ==
    /\ wl_pc[p] = "sleeping"
    /\ lm_now >= wl_wake[p]
    /\ wl_timestamps' = Append(Prune(wl_timestamps, lm_now, wl_window), lm_now)
    /\ wl_returns' = Append(wl_returns, lm_now)
    /\ wl_slept' = Append(wl_slept, TRUE)
    /\ wl_pc' = [wl_pc EXCEPT ![p] = "idle"]
    /\ UNCHANGED <<lm_now, wl_max, wl_window, wl_wake, wl_calls, outsideWl>>

InitWindow == CoreQuiet /\ XtQuiet /\ SaQuiet /\ WlInit /\ PsQuiet /\ FrQuiet /\ DedupQuiet

NextWindow ==
    \/ WlTick
    \/ \E p \in WlCallers : WlAcquire(p)
    \/ \E p \in WlCallers : WlWake(p)

SpecWindow == InitWindow /\ [][NextWindow]_vars

\* C16: of M+1 acquire() calls the first M return without sleeping, and the
\* last returns no earlier than the window after the first returned.
C16_WindowHoldsLastCall ==
    /\ \A k \in DOMAIN wl_returns : k <= wl_max => ~wl_slept[k]
    /\ Len(wl_returns) > wl_max =>
          wl_returns[wl_max + 1] >= wl_returns[1] + wl_window

\* C16 witness: two calls went through at once and the third slept out the window.
C16_Witness ==
    /\ wl_max = 2
    /\ Len(wl_returns) = 3
    /\ wl_returns[1] = wl_returns[2]
    /\ wl_slept[3]
    /\ wl_returns[3] = wl_returns[1] + wl_window + WindowSlack

\* a limiter whose window has just been filled: max_requests acquisitions
\* at time 0; the calls counted from here on are the ones that find it full
WlInitFull ==
    /\ lm_now = 0
    /\ wl_max \in 1..MaxWinReq
    /\ wl_window \in {TicksPerSecond * w : w \in 1..MaxWindowSecs}
    /\ wl_timestamps = [i \in 1..wl_max |-> 0]
    /\ wl_pc = [p \in WlCallers |-> "idle"]
    /\ wl_wake = [p \in WlCallers |-> 0]
    /\ wl_calls = 0
    /\ wl_returns = [i \in 1..wl_max |-> 0]
    /\ wl_slept = [i \in 1..wl_max |-> FALSE]

InitWindowFull ==
    CoreQuiet /\ XtQuiet /\ SaQuiet /\ WlInitFull /\ PsQuiet /\ FrQuiet /\ DedupQuiet

SpecWindowFull == InitWindowFull /\ [][NextWindow]_vars

\* C35: whatever the number of concurrent acquire() callers, the timestamp
\* list never holds more than max_requests entries and no max_requests + 1
\* acquisitions are recorded less than window_seconds apart.
C35_WindowNeverOverfull ==
    /\ Len(wl_timestamps) <= wl_max
    /\ \A k \in DOMAIN wl_returns :
           k + wl_max \in DOMAIN wl_returns =>
               wl_returns[k + wl_max] - wl_returns[k] >= wl_window

\* a gate that takes the interval one tick short
IntervalWait_short(last, interval, t) == last + interval - t - 1

\* PerSecondLimiter.acquire: wait = self._last + self._interval - now
IntervalWait(last, interval, t) == last + interval - t

PsInit ==
    /\ ps_interval \in 1..MaxInterval
    /\ lm_now \in {0, ps_interval}
    /\ ps_jitter \in 0..MaxJitter
    /\ ps_last = 0
    /\ ps_lock = 0
    /\ ps_pc = [p \in PsCallers |-> "idle"]
    /\ ps_wake = [p \in PsCallers |-> 0]
    /\ ps_calls = 0
    /\ ps_returns = <<>>

PsTick ==
    /\ lm_now < MaxPsTime
    /\ lm_now' = lm_now + 1
    /\ UNCHANGED <<psVars, outsidePs>>

\* acquire() is called: the caller queues for the lock
PsCall(p) ==
    /\ ps_pc[p] = "idle"
    /\ ps_calls < MaxAcquires
    /\ ps_calls' = ps_calls + 1
    /\ ps_pc' = [ps_pc EXCEPT ![p] = "locking"]
    /\ UNCHANGED <<lm_now, ps_interval, ps_jitter, ps_last, ps_lock, ps_wake,
                   ps_returns, outsidePs>>

\* the caller holds the lock and has slept what it had to: _last is set, the
\* lock released and acquire returns
PsReturn(p) ==
    /\ ps_last' = lm_now
    /\ ps_lock' = 0
    /\ ps_pc' = [ps_pc EXCEPT ![p] = "idle"]
    /\ ps_returns' = Append(ps_returns, lm_now)

\* the caller gets the lock: it returns at once, or sleeps wait + U[0, jitter]
PsEnter(p, j) ==
    /\ ps_pc[p] = "locking"
    /\ ps_lock = 0
    /\ LET wait == IntervalWait(ps_last, ps_interval, lm_now)
       IN IF wait > 0
          THEN /\ ps_lock' = p
               /\ ps_pc' = [ps_pc EXCEPT ![p] = "sleeping"]
               /\ ps_wake' = [ps_wake EXCEPT ![p] = lm_now + wait + j]
               /\ UNCHANGED <<ps_last, ps_returns>>
          ELSE /\ PsReturn(p)
               /\ UNCHANGED ps_wake
    /\ UNCHANGED <<lm_now, ps_interval, ps_jitter, ps_calls, outsidePs>>

\* asyncio.sleep is over
PsWake(p) ==
    /\ ps_pc[p] = "sleeping"
    /\ lm_now >= ps_wake[p]
    /\ PsReturn(p)
    /\ UNCHANGED <<lm_now, ps_interval, ps_jitter, ps_wake, ps_calls, outsidePs>>

InitPerSecond == CoreQuiet /\ XtQuiet /\ SaQuiet /\ WlQuiet /\ PsInit /\ FrQuiet /\ DedupQuiet

NextPerSecond ==
    \/ PsTick
    \/ \E p \in PsCallers : PsCall(p)
    \/ \E p \in PsCallers, j \in 0..MaxJitter : j <= ps_jitter /\ PsEnter(p, j)
    \/ \E p \in PsCallers : PsWake(p)

SpecPerSecond == InitPerSecond /\ [][NextPerSecond]_vars

\* C17: whatever the callers, the returns of acquire() come one at a time
\* and two successive returns are at least the interval apart.
C17_ReturnsSpacedByInterval ==
    /\ \A k \in DOMAIN ps_returns :
          k > 1 => ps_returns[k] >= ps_returns[k - 1] + ps_interval
    /\ Cardinality({p \in PsCallers : ps_pc[p] = "sleeping"}) <= 1

\* C17 witness: two callers were queued at the same moment and the second
\* return came exactly one interval after the first.
C17_Witness ==
    /\ ps_interval = 2
    /\ Len(ps_returns) = 3
    /\ ps_returns[2] = ps_returns[1] + ps_interval
    /\ ps_returns[3] = ps_returns[2] + ps_interval + 1
    /\ ps_lock = 0

(* --------------------------- relevance filter -------------------------- *)

\* what one _call_llm comes to: an answer text, or an exception
LLMOutcomes == {"Yes", "No", "Maybe", "error"}

\* response.strip().lower().startswith("yes")
AnswerIsYes(answer) == answer = "Yes"

\* a checker that drops the article when the call fails
OnLLMError_closed == FALSE

\* check_relevance's except branch: "On failure, keep the article"
OnLLMError == TRUE

check_relevance(outcome) ==
    IF outcome = "error" THEN OnLLMError ELSE AnswerIsYes(outcome)

YesCount(votes) == Cardinality({k \in DOMAIN votes : votes[k]})

\* _check_with_consensus: yes_count > len(checkers) / 2
ConsensusKeeps(votes) == 2 * YesCount(votes) > Len(votes)

\* the verdict on one ref: the single checker's, or the majority's
IsRelevant(votes) ==
    IF Len(votes) = 1 THEN votes[1] ELSE ConsensusKeeps(votes)

\* filter_refs(refs) on a single-provider checker or on a consensus checker
FrInit ==
    /\ fr_len \in 0..MaxFilterRefs
    /\ fr_n \in 1..MaxCheckers
    /\ fr_i = 1
    /\ fr_votes = <<>>
    /\ fr_errs = 0
    /\ fr_notyes = 0
    /\ fr_log = <<>>
    /\ fr_out = <<>>
    /\ fr_pc = IF fr_len = 0 THEN "returned" ELSE "checking"

\* one checker's check_relevance on the current ref returns
FrCall(outcome) ==
    /\ fr_pc = "checking"
    /\ Len(fr_votes) < fr_n
    /\ fr_votes' = Append(fr_votes, check_relevance(outcome))
    /\ fr_errs' = fr_errs + (IF outcome = "error" THEN 1 ELSE 0)
    /\ fr_notyes' = fr_notyes + (IF outcome \in {"No", "Maybe"} THEN 1 ELSE 0)
    /\ UNCHANGED <<fr_len, fr_n, fr_i, fr_log, fr_out, fr_pc, outsideFr>>

\* the verdicts on the current ref are in: it is kept or dropped
FrDecide ==
    /\ fr_pc = "checking"
    /\ Len(fr_votes) = fr_n
    /\ fr_out' = IF IsRelevant(fr_votes) THEN Append(fr_out, fr_i) ELSE fr_out
    /\ fr_log' = Append(fr_log, [errs |-> fr_errs, notyes |-> fr_notyes])
    /\ fr_votes' = <<>>
    /\ fr_errs' = 0
    /\ fr_notyes' = 0
    /\ fr_i' = fr_i + 1
    /\ fr_pc' = IF fr_i = fr_len THEN "returned" ELSE "checking"
    /\ UNCHANGED <<fr_len, fr_n, outsideFr>>

InitFilter == CoreQuiet /\ XtQuiet /\ SaQuiet /\ LmQuiet /\ FrInit /\ DedupQuiet

NextFilter ==
    \/ \E outcome \in LLMOutcomes : FrCall(outcome)
    \/ FrDecide

SpecFilter == InitFilter /\ [][NextFilter]_vars

Kept(i) == \E k \in DOMAIN fr_out : fr_out[k] = i

\* C18: a ref is kept when the single checker's call failed, and when every
\* sub-checker's call failed; a ref is dropped only when some answer was not Yes.
C18_FilterFailsOpen ==
    \A i \in DOMAIN fr_log :
        /\ fr_log[i].errs = fr_n => Kept(i)
        /\ ~Kept(i) => fr_log[i].notyes > 0

\* C18 witness: three sub-checkers, a ref kept with every call failed and a
\* ref dropped on two answers other than Yes with the third call failed.
C18_Witness ==
    /\ fr_pc = "returned"
    /\ fr_n = 3
    /\ fr_len = 2
    /\ fr_log[1].errs = 3 /\ Kept(1)
    /\ fr_log[2].errs = 1 /\ fr_log[2].notyes = 2 /\ ~Kept(2)

(* --------------------------- URL canonicalisation --------------------------- *)

\* A URL is written as the parts its text splits into: the scheme before "://",
\* the dot-separated labels of the host, the path as its segments ("/" before
\* each) followed by `slashes` more slashes, the keys of the query in the order
\* written, and whether a "#fragment" follows.
Schemes == {"", "HTTPS"}
Labels == {"www", "WWW", "ex"}
Segments == {"a", "a;p"}
Keys == {"b", "a", "UTM_Source", "hsCtaTracking"}

SeqsUpTo(S, n) == UNION {[1..k -> S] : k \in 0..n}

Urls ==
    [scheme : Schemes,
     netloc : SeqsUpTo(Labels, MaxLabels) \ {<<>>},
     segs : SeqsUpTo(Segments, 1),
     slashes : 0..MaxSlashes,
     query : SeqsUpTo(Keys, MaxParams),
     fragment : BOOLEAN]

\* str.lower()
Lower(w) ==
    CASE w = "HTTPS" -> "https"
      [] w = "WWW" -> "www"
      [] w = "UTM_Source" -> "utm_source"
      [] w = "hsCtaTracking" -> "hsctatracking"
      [] OTHER -> w

\* urllib.parse.urlparse: ";params" is split off the last segment of the path
HasParams(u) ==
    /\ u.slashes = 0 /\ u.segs # <<>>
    /\ u.segs[Len(u.segs)] = "a;p"

urlparse(u) ==
    [scheme |-> u.scheme, netloc |-> u.netloc,
     segs |-> IF HasParams(u) THEN [u.segs EXCEPT ![Len(u.segs)] = "a"] ELSE u.segs,
     slashes |-> u.slashes,
     params |-> IF HasParams(u) THEN "p" ELSE "",
     query |-> u.query, fragment |-> u.fragment]

\* urllib.parse.urlunparse, as normalize_url calls it: params and fragment are ""
urlunparse(scheme, netloc, path, query) ==
    [scheme |-> scheme, netloc |-> netloc, segs |-> path.segs, slashes |-> path.slashes,
     query |-> query, fragment |-> FALSE]

\* parsed.netloc.lower().removeprefix("www."): one prefix, when a dot follows it
RemovePrefixWww(netloc) ==
    IF Len(netloc) > 1 /\ netloc[1] = "www" THEN Tail(netloc) ELSE netloc

\* parsed.path.rstrip("/") or "/"
StripPath(parsed) ==
    [segs |-> parsed.segs, slashes |-> IF parsed.segs = <<>> THEN 1 ELSE 0]

\* _TRACKING_PARAMS, of the keys drawn here
TrackingParams == {"utm_source", "hsCtaTracking"}

\* the order of Python strings: upper case before lower case
KeyRank(k) == CASE k = "UTM_Source" -> 0 [] k = "a" -> 1 [] k = "b" -> 2 [] OTHER -> 3

RECURSIVE SortKeys(_)
SortKeys(q) ==
    IF q = <<>> THEN <<>>
    ELSE LET least == CHOOSE i \in 1..Len(q) : \A j \in 1..Len(q) : KeyRank(q[i]) <= KeyRank(q[j])
         IN <<q[least]>> \o SortKeys([i \in 1..(Len(q) - 1) |-> IF i < least THEN q[i] ELSE q[i + 1]])

\* parse_qs, the filter on k.lower(), sorted, urlencode
CleanQuery(q) == SortKeys(SelectSeq(q, LAMBDA k : Lower(k) \notin TrackingParams))

normalize_url(u) ==
    LET parsed == urlparse(u)
        scheme == Lower(IF parsed.scheme = "" THEN "https" ELSE parsed.scheme)
        netloc == RemovePrefixWww([i \in 1..Len(parsed.netloc) |-> Lower(parsed.netloc[i])])
    IN urlunparse(scheme, netloc, StripPath(parsed), CleanQuery(parsed.query))

NuInit ==
    /\ nu_url \in Urls
    /\ nu_pc = "given" /\ nu_once = nu_url /\ nu_twice = nu_url

\* normalize_url(u)
NuFirst ==
    /\ nu_pc = "given"
    /\ nu_once' = normalize_url(nu_url)
    /\ nu_pc' = "once"
    /\ UNCHANGED <<nu_url, nu_twice, outsideNu>>

\* normalize_url of the result
NuSecond ==
    /\ nu_pc = "once"
    /\ nu_twice' = normalize_url(nu_once)
    /\ nu_pc' = "twice"
    /\ UNCHANGED <<nu_url, nu_once, outsideNu>>

InitUrl == CoreQuiet /\ XtQuiet /\ SaQuiet /\ LmQuiet /\ FrQuiet /\ NuInit /\ DdQuiet /\ MnQuiet /\ GqQuiet

NextUrl == NuFirst \/ NuSecond

SpecUrl == InitUrl /\ [][NextUrl]_vars

\* how often key k is written in query q
KeyCount(k, q) == Cardinality({i \in 1..Len(q) : q[i] = k})

\* C23: normalize_url removes exactly the block-listed parameters: no key of
\* the block-list is left in the result, and every parameter whose key is not
\* on it, in any spelling, is still there.
C23_RemovesExactlyTracking ==
    nu_pc # "given" =>
        /\ \A i \in 1..Len(nu_once.query) : nu_once.query[i] \notin TrackingParams
        /\ \A k \in Keys :
               Lower(k) \notin {Lower(t) : t \in TrackingParams}
                   => KeyCount(k, nu_once.query) = KeyCount(k, nu_url.query)

\* C19: normalising a normalised URL changes nothing, for every URL, repeated
\* www. prefixes, several trailing slashes, tracking parameters and fragments
\* included.
C19_NormalizeIdempotent == nu_pc = "twice" => nu_twice = nu_once

(* --------------------------- deduplication and filtering --------------------------- *)

\* The titles the articles are drawn from, three of them about one event.
Titles ==
    <<"Heatwave kills ten in Delhi today",
      "Heatwave kills ten in Delhi - NDTV",
      "Heat kills ten in Delhi",
      "Dilli mein loo se das ki maut">>

TitleNo(t) == CHOOSE i \in 1..Len(Titles) : Titles[i] = t

\* the language an article with this title is collected under
LangOf(t) == IF TitleNo(t) = 4 THEN "hi" ELSE "en"

\* the URLs the articles are drawn from: two spellings of one page, and two other pages
PageA ==
    [scheme |-> "https", netloc |-> <<"ex">>, segs |-> <<"a">>, slashes |-> 0,
     query |-> <<>>, fragment |-> FALSE]
PageATracked ==
    [scheme |-> "HTTPS", netloc |-> <<"www", "ex">>, segs |-> <<"a">>, slashes |-> 1,
     query |-> <<"UTM_Source">>, fragment |-> TRUE]
PageRoot ==
    [scheme |-> "https", netloc |-> <<"ex">>, segs |-> <<>>, slashes |-> 0,
     query |-> <<>>, fragment |-> FALSE]
PageB ==
    [scheme |-> "https", netloc |-> <<"ex">>, segs |-> <<"a">>, slashes |-> 0,
     query |-> <<"b">>, fragment |-> FALSE]

\* Article(...), as extraction hands it over: relevance_score has its default
NewArticle(url, title, full_text) ==
    [url |-> url, title |-> title, language |-> LangOf(title), full_text |-> full_text,
     district |-> "none", source |-> "Unknown", relevance_score |-> 0]

\* two of the English titles on three pages with and without text, one of them
\* also under the other spelling of its page, the third English title, and the
\* Hindi title without text and over a text that names a heat term
ArticlePool ==
    {NewArticle(u, Titles[i], ft) : u \in {PageA, PageB, PageRoot}, i \in 1..2, ft \in {"none", "body"}}
    \cup {NewArticle(PageB, Titles[3], "none")}
    \cup {NewArticle(PageATracked, Titles[1], ft) : ft \in {"none", "body"}}
    \cup {NewArticle(PageA, Titles[4], ft) : ft \in {"none", "heatwave"}}

\* len(article.full_text)
TextLen(ft) == CASE ft = "body" -> 4 [] ft = "heatwave" -> 8 [] OTHER -> 0

\* _quality_score
quality_score(a) ==
    (IF a.full_text # "none" THEN 100 + TextLen(a.full_text) ELSE 0)
    + (IF a.district # "none" THEN 10 ELSE 0)
    + (IF a.source # "Unknown" THEN 5 ELSE 0)

\* deduplicate_by_url, one turn of its loop: `seen` is the dict's values in insertion order
UrlStep_first_wins(seen, a) ==
    IF \E i \in 1..Len(seen) : normalize_url(seen[i].url) = normalize_url(a.url)
    THEN seen ELSE Append(seen, a)

UrlStep(seen, a) ==
    LET norm == normalize_url(a.url)
        hits == {i \in 1..Len(seen) : normalize_url(seen[i].url) = norm}
    IN IF hits # {}
       THEN LET i == CHOOSE h \in hits : TRUE
            IN IF quality_score(a) > quality_score(seen[i])
               THEN [seen EXCEPT ![i] = a] ELSE seen
       ELSE Append(seen, a)

RECURSIVE UrlLoop(_, _)
UrlLoop(seen, rest) ==
    IF rest = <<>> THEN seen ELSE UrlLoop(UrlStep(seen, Head(rest)), Tail(rest))

deduplicate_by_url(articles) == UrlLoop(<<>>, articles)

\* _strip_source_suffix(title).strip().lower()
Comparable(t) ==
    CASE TitleNo(t) = 1 -> "heatwave kills ten in delhi today"
      [] TitleNo(t) = 2 -> "heatwave kills ten in delhi"
      [] TitleNo(t) = 3 -> "heat kills ten in delhi"
      [] OTHER -> "dilli mein loo se das ki maut"

\* SequenceMatcher(None, a, b).ratio() on these titles, in thousandths
RatioTable ==
    << <<1000, 900, 821, 225>>,
       <<900, 1000, 920, 250>>,
       <<821, 920, 1000, 269>>,
       <<387, 357, 384, 1000>> >>

title_similarity(title_a, title_b) == RatioTable[TitleNo(title_a)][TitleNo(title_b)]

\* deduplicate_by_title, one turn of the loop over a language bucket
TitleStep(kept, a, threshold) ==
    LET dups == {i \in 1..Len(kept) : title_similarity(a.title, kept[i].title) >= threshold}
    IN IF dups # {}
       THEN LET i == CHOOSE d \in dups : \A e \in dups : d <= e
            IN IF quality_score(a) > quality_score(kept[i])
               THEN [kept EXCEPT ![i] = a] ELSE kept
       ELSE Append(kept, a)

RECURSIVE TitleLoop(_, _, _)
TitleLoop(kept, rest, threshold) ==
    IF rest = <<>> THEN kept
    ELSE TitleLoop(TitleStep(kept, Head(rest), threshold), Tail(rest), threshold)

\* deduplicate_by_title: the buckets in the order their languages first appear
RECURSIVE deduplicate_by_title(_, _)
deduplicate_by_title(articles, threshold) ==
    IF articles = <<>> THEN <<>>
    ELSE LET lang == articles[1].language
         IN TitleLoop(<<>>, SelectSeq(articles, LAMBDA a : a.language = lang), threshold)
            \o deduplicate_by_title(SelectSeq(articles, LAMBDA a : a.language # lang), threshold)

\* score_relevance: the matched terms that occur in the title
TitleTerms(a) == IF TitleNo(a.title) = 4 THEN 0 ELSE 1

\* score_relevance: the English heat terms found in title and full_text; the
\* English titles and the text "heatwave" name the same one
MatchedTerms(a) == IF TitleTerms(a) > 0 \/ a.full_text = "heatwave" THEN 1 ELSE 0

Least(x, y) == IF x <= y THEN x ELSE y

\* score_relevance, in thousandths
score_relevance(a) ==
    LET terms == MatchedTerms(a)
        term_score == Least((terms * 1000) \div 3, 1000)
        category_score == Least((terms * 1000) \div 2, 1000)
        title_terms == TitleTerms(a)
        title_bonus == IF title_terms > 0 THEN 200 ELSE 0
        raw_score == (term_score * 5) \div 10 + (category_score * 3) \div 10 + title_bonus
        floored == IF a.full_text = "none" /\ title_terms > 0 /\ raw_score < 300 THEN 300 ELSE raw_score
    IN IF terms = 0 THEN 0 ELSE Least(floored, 1000)

\* _matches_exclusion on the article's text: the patterns, when there are any,
\* match the last two titles
MatchesExclusion(a, patterns) == patterns /\ TitleNo(a.title) >= 3

\* filter_articles: `continue`
Excluded_low_score(score, a, patterns) == score < 50

Excluded(score, a, patterns) == score < 50 /\ MatchesExclusion(a, patterns)

\* filter_articles
RECURSIVE filter_articles(_, _)
filter_articles(articles, patterns) ==
    IF articles = <<>> THEN <<>>
    ELSE LET a == Head(articles)
             score == score_relevance(a)
             scored == [a EXCEPT !.relevance_score = score]
         IN (IF Excluded(score, a, patterns) THEN <<>> ELSE <<scored>>)
            \o filter_articles(Tail(articles), patterns)

deduplicate_and_filter(articles, patterns) ==
    filter_articles(deduplicate_by_title(deduplicate_by_url(articles), 850), patterns)

DdInit ==
    /\ dd_in \in SeqsUpTo(ArticlePool, MaxArticles)
    /\ dd_patterns \in BOOLEAN
    /\ dd_pc = "given" /\ dd_url = <<>> /\ dd_title = <<>>
    /\ dd_once = <<>> /\ dd_twice = <<>>

\* deduplicate_and_filter(A)
DdFirst ==
    /\ dd_pc = "given"
    /\ dd_url' = deduplicate_by_url(dd_in)
    /\ dd_title' = deduplicate_by_title(dd_url', 850)
    /\ dd_once' = deduplicate_and_filter(dd_in, dd_patterns)
    /\ dd_pc' = "once"
    /\ UNCHANGED <<dd_in, dd_patterns, dd_twice, outsideDd>>

\* deduplicate_and_filter of the result
DdSecond ==
    /\ dd_pc = "once"
    /\ dd_twice' = deduplicate_and_filter(dd_once, dd_patterns)
    /\ dd_pc' = "twice"
    /\ UNCHANGED <<dd_in, dd_patterns, dd_url, dd_title, dd_once, outsideDd>>

InitDedup == CoreQuiet /\ XtQuiet /\ SaQuiet /\ LmQuiet /\ FrQuiet /\ NuQuiet /\ DdInit /\ MnQuiet /\ GqQuiet

NextDedup == DdFirst \/ DdSecond

SpecDedup == InitDedup /\ [][NextDedup]_vars

\* C20: running the pipeline on its own result changes nothing, for every list
\* of articles, whatever the similarity of the titles and the quality scores.
C20_DedupIdempotent == dd_pc = "twice" => dd_twice = dd_once

\* C21: deduplicate_by_url keeps exactly one article per canonical URL, an
\* article of the input whose quality score is the highest among the articles
\* with that canonical URL; articles with distinct canonical URLs are all kept.
C21_OnePerCanonicalUrl ==
    dd_pc # "given" =>
        /\ \A i \in 1..Len(dd_in) :
               Cardinality({j \in 1..Len(dd_url) :
                   normalize_url(dd_url[j].url) = normalize_url(dd_in[i].url)}) = 1
        /\ Len(dd_url) = Cardinality({normalize_url(dd_in[i].url) : i \in 1..Len(dd_in)})
        /\ \A j \in 1..Len(dd_url) :
               /\ \E i \in 1..Len(dd_in) : dd_in[i] = dd_url[j]
               /\ \A i \in 1..Len(dd_in) :
                      normalize_url(dd_in[i].url) = normalize_url(dd_url[j].url)
                          => quality_score(dd_url[j]) >= quality_score(dd_in[i])

\* two spellings of one page, the better article second, and another page
C21_Witness ==
    /\ dd_pc # "given" /\ Len(dd_in) = 3 /\ Len(dd_url) = 2
    /\ dd_in[1].url = PageA /\ dd_in[2].url = PageATracked
    /\ quality_score(dd_in[2]) > quality_score(dd_in[1])
    /\ dd_url[1] = dd_in[2]

\* the articles filter_articles is given that it has to keep
MustKeep ==
    {i \in 1..Len(dd_title) :
        ~(score_relevance(dd_title[i]) < 50 /\ MatchesExclusion(dd_title[i], dd_patterns))}

\* C22: filter_articles drops an article exactly when its score is below 0.05
\* and its text matches an exclusion pattern; the others are returned in input
\* order with their computed score, so an article with a matched heat term is
\* never dropped.
C22_HighRecallFilter ==
    dd_pc # "given" =>
        /\ Len(dd_once) = Cardinality(MustKeep)
        /\ \A k \in MustKeep :
               LET j == Cardinality({i \in MustKeep : i <= k})
               IN dd_once[j] = [dd_title[k] EXCEPT !.relevance_score = score_relevance(dd_title[k])]
        /\ \A i \in 1..Len(dd_title) : MatchedTerms(dd_title[i]) > 0 => i \in MustKeep

\* one article dropped, and one kept although an exclusion pattern matches it
C22_Witness ==
    /\ dd_pc # "given" /\ dd_patterns
    /\ Len(dd_title) = 3 /\ Len(dd_once) = 2
    /\ \E j \in 1..Len(dd_once) : MatchesExclusion(dd_once[j], dd_patterns)

\* C37: after deduplicate_by_title no two surviving articles of one language
\* have title similarity at or above the threshold, whatever the input order
\* and also when similarity is not transitive; an article is never dropped
\* for an article of another language.
C37_NoSimilarSurvivors ==
    dd_pc # "given" =>
        /\ \A i, j \in 1..Len(dd_title) :
               (i # j /\ dd_title[i].language = dd_title[j].language)
                   => title_similarity(dd_title[i].title, dd_title[j].title) < 850
        /\ \A l \in {dd_url[i].language : i \in 1..Len(dd_url)} :
               \E j \in 1..Len(dd_title) : dd_title[j].language = l

(* ------------------------------ main() -------------------------------- *)

SourceNames == {"google", "newsdata", "gnews"}

\* the statements of the try block of main(), in order
Stages ==
    <<"load", "collect", "select", "llm_filter", "extract", "tag_text", "tag_llm",
      "dedup", "output", "unlink">>

StageNo(st) == CHOOSE i \in 1..Len(Stages) : Stages[i] = st

\* where control goes when a stage ends normally: Stage 3c is wrapped in
\* try/finally when a checker exists, and the finally clause of main() follows
\* the last statement of the try block
NextStage(st, llm) ==
    IF st = "unlink" THEN "finally"
    ELSE IF st = "tag_llm" /\ llm # {} THEN "close_checker"
    ELSE Stages[StageNo(st) + 1]

Handler_cleanup(st) == "unlink"

\* where control goes when a stage raises: Stage 3c has its own finally clause,
\* every other statement is directly inside the try block of main()
Handler(st) == IF st = "tag_llm" THEN "close_checker" ELSE "except"

\* the sources are constructed before the try block; a run may find the
\* checkpoint file of an earlier run
MnInit ==
    /\ mn_pc = "load" /\ mn_raised = FALSE /\ mn_failedAt = "none" /\ mn_removed = FALSE
    /\ mn_sources \in SUBSET SourceNames /\ mn_src_open = mn_sources
    /\ mn_llm = {} /\ mn_llm_open = {}
    /\ mn_file \in {"absent", "present"} /\ mn_written = mn_file

\* one statement of the try block runs, and ends normally or raises.
\* run_collection saves the checkpoint after every executed query;
\* create_relevance_checker builds one httpx client per provider with a key;
\* unlink removes the file.
MnStage(ok) ==
    /\ mn_pc \in {Stages[i] : i \in 1..Len(Stages)}
    /\ (mn_pc = "tag_llm" /\ mn_llm = {}) => ok
    /\ IF mn_pc = "collect" /\ mn_sources # {}
       THEN /\ mn_file' \in {mn_file, "present"}
            /\ mn_written' = mn_file'
            /\ UNCHANGED mn_removed
       ELSE IF mn_pc = "unlink" /\ ok
       THEN mn_file' = "absent" /\ mn_removed' = TRUE /\ UNCHANGED mn_written
       ELSE UNCHANGED <<mn_file, mn_written, mn_removed>>
    /\ IF mn_pc = "llm_filter"
       THEN \E n \in 0..MaxLLM : mn_llm' = 1..n /\ mn_llm_open' = 1..n
       ELSE UNCHANGED <<mn_llm, mn_llm_open>>
    /\ IF ok
       THEN /\ mn_pc' = NextStage(mn_pc, mn_llm)
            /\ UNCHANGED <<mn_raised, mn_failedAt>>
       ELSE /\ mn_pc' = Handler(mn_pc)
            /\ mn_raised' = TRUE /\ mn_failedAt' = mn_pc
    /\ UNCHANGED <<mn_sources, mn_src_open>>
    /\ UNCHANGED outsideMn

\* the finally clause of Stage 3c: relevance_checker.close() closes every
\* checker's client, then the exception, if any, goes on
MnCloseChecker ==
    /\ mn_pc = "close_checker"
    /\ mn_llm_open' = {}
    /\ mn_pc' = IF mn_raised THEN "except" ELSE "dedup"
    /\ UNCHANGED <<mn_raised, mn_src_open, mn_file, mn_sources, mn_llm, mn_written,
                   mn_removed, mn_failedAt>>
    /\ UNCHANGED outsideMn

\* except Exception: log and raise again
MnExcept ==
    /\ mn_pc = "except"
    /\ mn_pc' = "finally"
    /\ UNCHANGED <<mn_raised, mn_src_open, mn_llm_open, mn_file, mn_sources, mn_llm,
                   mn_written, mn_removed, mn_failedAt>>
    /\ UNCHANGED outsideMn

\* the finally clause of main(): every source of sources_to_close is closed
MnFinally ==
    /\ mn_pc = "finally"
    /\ mn_src_open' = {}
    /\ mn_pc' = "exited"
    /\ UNCHANGED <<mn_raised, mn_llm_open, mn_file, mn_sources, mn_llm, mn_written,
                   mn_removed, mn_failedAt>>
    /\ UNCHANGED outsideMn

InitMain ==
    CoreQuiet /\ XtQuiet /\ SaQuiet /\ LmQuiet /\ FrQuiet /\ NuQuiet /\ DdQuiet /\ MnInit /\ GqQuiet

NextMain ==
    \/ \E ok \in BOOLEAN : MnStage(ok)
    \/ MnCloseChecker
    \/ MnExcept
    \/ MnFinally

SpecMain == InitMain /\ [][NextMain]_vars

\* C24: when a pipeline run has exited, normally or with an exception raised in
\* any stage, every source adapter and every LLM checker client created in the
\* run has been closed.
C24_AllClientsClosed ==
    mn_pc = "exited" => mn_src_open = {} /\ mn_llm_open = {}

\* C26: the checkpoint file is removed exactly when the whole pipeline ends
\* without an exception; on a failing exit the file is as the last save left it.
C26_CheckpointLifecycle ==
    mn_pc = "exited" =>
        /\ mn_removed <=> ~mn_raised
        /\ mn_removed => mn_file = "absent"
        /\ mn_raised => mn_file = mn_written

\* a run that saved its checkpoint and failed while writing the output
C26_Witness ==
    /\ mn_pc = "exited" /\ mn_raised /\ mn_failedAt = "output"
    /\ mn_file = "present" /\ mn_llm # {}

(* ------------------------- district query batches ---------------------- *)

\* A text is written as the sequence of its pieces: words, single blanks,
\* brackets and double quotes. No word drawn here is part of another piece, so
\* Python's substring tests are tests on runs of pieces.
Blank == " "
Quote == "\""
OrSep == <<Blank, "OR", Blank>>

\* district names: three of one word, one of two words that ends in one of them
DistrictNames == {<<"Agra">>, <<"Pune">>, <<"Goa">>, <<"North", Blank, "Goa">>}

\* the heat term generate_district_queries picks for the language
HeatTerm == "heatwave"

\* _CHAR_LIMITS, and two limits small enough to split the names drawn here
CharLimits == {20, 30, 200}

\* len() of a piece and of a text
PieceLen(w) ==
    CASE w = "Agra" -> 4 [] w = "Pune" -> 4 [] w = "Goa" -> 3 [] w = "North" -> 5
      [] w = "heatwave" -> 8 [] w = "OR" -> 2 [] OTHER -> 1

RECURSIVE CharLen(_)
CharLen(text) == IF text = <<>> THEN 0 ELSE PieceLen(Head(text)) + CharLen(Tail(text))

\* sub in text
Contains(text, sub) ==
    \E i \in 1..(Len(text) - Len(sub) + 1) : SubSeq(text, i, i + Len(sub) - 1) = sub

\* text.startswith(sub)
StartsWith(text, sub) == Len(sub) <= Len(text) /\ SubSeq(text, 1, Len(sub)) = sub

\* _quote_if_multi_word
quote_if_multi_word(term) ==
    IF Contains(term, <<Blank>>) THEN <<Quote>> \o term \o <<Quote>> ELSE term

\* " OR ".join(batch)
RECURSIVE JoinOr(_)
JoinOr(batch) ==
    IF batch = <<>> THEN <<>>
    ELSE IF Len(batch) = 1 THEN batch[1]
    ELSE batch[1] \o OrSep \o JoinOr(Tail(batch))

\* f'{heat_term} ({" OR ".join(batch)})'
BatchQuery(heat_term, batch) == <<heat_term, Blank, "(">> \o JoinOr(batch) \o <<")">>

\* batch_districts, the loop: `done` are the batches flushed, `batch` the
\* quoted names of the open one, `used` its length so far
RECURSIVE BatchLoop(_, _, _, _, _)
BatchLoop(done, batch, used, rest, budget) ==
    IF rest = <<>> THEN (IF batch # <<>> THEN Append(done, batch) ELSE done)
    ELSE LET name == quote_if_multi_word(Head(rest))
             cost == CharLen(name) + (IF batch # <<>> THEN 4 ELSE 0)
         IN IF used + cost > budget /\ batch # <<>>
            THEN BatchLoop(Append(done, batch), <<name>>, CharLen(name), Tail(rest), budget)
            ELSE BatchLoop(done, Append(batch, name), used + cost, Tail(rest), budget)

\* the batches batch_districts packs, as lists of quoted names
Batches(districts, heat_term, max_chars) ==
    BatchLoop(<<>>, <<>>, 0, districts, max_chars - (PieceLen(heat_term) + 3))

\* batch_districts: one query string per batch
batch_districts(districts, heat_term, max_chars) ==
    LET bs == Batches(districts, heat_term, max_chars)
    IN [i \in 1..Len(bs) |-> BatchQuery(heat_term, bs[i])]

\* the first index of piece w in text, 0 when absent; the last one likewise
Find(text, w) ==
    IF \E i \in 1..Len(text) : text[i] = w
    THEN CHOOSE i \in 1..Len(text) : text[i] = w /\ \A j \in 1..(i - 1) : text[j] # w
    ELSE 0
RFind(text, w) ==
    IF \E i \in 1..Len(text) : text[i] = w
    THEN CHOOSE i \in 1..Len(text) : text[i] = w /\ \A j \in (i + 1)..Len(text) : text[j] # w
    ELSE 0

\* text.split(" OR "), as the set of its parts
RECURSIVE SplitOr(_, _)
SplitOr(part, rest) ==
    IF rest = <<>> THEN {part}
    ELSE IF StartsWith(rest, OrSep)
    THEN {part} \cup SplitOr(<<>>, SubSeq(rest, Len(OrSep) + 1, Len(rest)))
    ELSE SplitOr(Append(part, Head(rest)), Tail(rest))

\* _extract_batch_districts, the test on one district name
InBatch(query_string, d) ==
    /\ \/ Contains(query_string, <<Quote>> \o d \o <<Quote>>)
       \/ Contains(query_string, <<Blank>> \o d)
       \/ StartsWith(query_string, d)
    /\ LET paren_start == Find(query_string, "(")
           paren_end == RFind(query_string, ")")
           paren_content == SubSeq(query_string, paren_start + 1, paren_end - 1)
       IN /\ paren_start > 0 /\ paren_end > paren_start
          /\ \/ Contains(paren_content, <<Quote>> \o d \o <<Quote>>)
             \/ d \in SplitOr(<<>>, paren_content)

\* _extract_batch_districts
extract_batch_districts(query_string, heat_term, all_districts) ==
    SelectSeq(all_districts, LAMBDA d : InBatch(query_string, d))

\* generate_district_queries for one region and language: the Query objects,
\* of which query_string and districts are kept
district_queries(district_names, heat_term, max_chars) ==
    LET batched_queries == batch_districts(district_names, heat_term, max_chars)
    IN [i \in 1..Len(batched_queries) |->
           [query_string |-> batched_queries[i],
            districts |-> extract_batch_districts(batched_queries[i], heat_term, district_names)]]

\* lists of distinct names
NameLists ==
    {l \in SeqsUpTo(DistrictNames, MaxDistricts) :
        l # <<>> /\ \A i, j \in 1..Len(l) : i # j => l[i] # l[j]}

GqInit ==
    /\ gq_names \in NameLists
    /\ gq_max \in CharLimits
    /\ gq_out = <<>>
    /\ gq_pc = "given"

GqGenerate ==
    /\ gq_pc = "given"
    /\ gq_out' = district_queries(gq_names, HeatTerm, gq_max)
    /\ gq_pc' = "returned"
    /\ UNCHANGED <<gq_names, gq_max, outsideGq>>

InitGen ==
    CoreQuiet /\ XtQuiet /\ SaQuiet /\ LmQuiet /\ FrQuiet /\ NuQuiet /\ DdQuiet /\ MnQuiet /\ GqInit

NextGen == GqGenerate

SpecGen == InitGen /\ [][NextGen]_vars

\* the names of a batch, without the quotes batch_districts put around them
Unquoted(batch) ==
    [i \in 1..Len(batch) |->
        IF batch[i][1] = Quote THEN SubSeq(batch[i], 2, Len(batch[i]) - 1) ELSE batch[i]]

\* C38: the districts tuple of every query generate_district_queries returns
\* is the list of names batch_districts packed into its string, in batch
\* order, quoted or not, the first name of the batch included.
C38_DistrictsMatchBatch ==
    gq_pc = "returned" =>
        LET bs == Batches(gq_names, HeatTerm, gq_max)
        IN /\ Len(gq_out) = Len(bs)
           /\ \A i \in 1..Len(bs) :
                  /\ gq_out[i].query_string = BatchQuery(HeatTerm, bs[i])
                  /\ gq_out[i].districts = Unquoted(bs[i])

====
